---- MODULE Spec2Model ----
(***************************************************************************)
(* Model of network_diagram.py: main(), that is AWSDataLoader.load(), the   *)
(* statistics main() prints, HTMLReportGenerator.generate() and            *)
(* ConnectivityAnalyzer.find_issues().                                     *)
(*                                                                         *)
(* A Python dict is a sequence of records with pairwise different "id"     *)
(* fields, in insertion order.                                             *)
(*                                                                         *)
(* The fields of the JSON records are strings.  A field the code reads     *)
(* with .get() and a default of "" is "" when the key is missing or        *)
(* empty.  A key the code reads with a subscript, or with .get() and no    *)
(* default, is Absent when the record does not have it: the subscript      *)
(* raises KeyError, and .get() gives None, which is not the empty string.  *)
(* A field of a dataclass that defaults to None is None until a loader     *)
(* sets it.  The two fields read with .get() and another default, Status   *)
(* of a VPN tunnel and bgpStatus of a BGP peer, tell three cases apart:    *)
(* Absent is the missing key, None is JSON null, "" is the empty string.   *)
(*                                                                         *)
(* The Tags (tags) list of a record is its field Name: the Value of the    *)
(* first tag whose Key is "Name", "" when there is none.                   *)
(***************************************************************************)
EXTENDS Integers, Sequences, FiniteSets, TLC

VARIABLES
    input,              \* the JSON files of the input directory
    pc,                 \* the next step of main(): load() steps, then find_issues()
    local_account_id,   \* NetworkData.local_account_id
    tgws,               \* NetworkData.tgws
    tgw_attachments,    \* NetworkData.tgw_attachments
    tgw_route_tables,   \* NetworkData.tgw_route_tables
    vpcs,               \* NetworkData.vpcs
    subnets,            \* NetworkData.subnets
    vpc_route_tables,   \* NetworkData.vpc_route_tables
    peerings,           \* NetworkData.peerings
    vpn_connections,    \* NetworkData.vpn_connections
    dx_connections,     \* NetworkData.dx_connections
    dx_vifs,            \* NetworkData.dx_vifs
    igws,               \* NetworkData.igws
    nat_gateways,       \* NetworkData.nat_gateways
    customer_gateways,  \* NetworkData.customer_gateways
    dx_gateways,        \* NetworkData.dx_gateways
    prefix_lists,       \* NetworkData.prefix_lists
    issues              \* the list find_issues() returns

vars == <<input, pc, local_account_id, tgws, tgw_attachments, tgw_route_tables,
          vpcs, subnets, vpc_route_tables, peerings, vpn_connections,
          dx_connections, dx_vifs, igws, nat_gateways, customer_gateways,
          dx_gateways, prefix_lists, issues>>

\* the peering, VPN and Direct Connect collections of NetworkData
connectivity == <<peerings, vpn_connections, dx_connections, dx_vifs>>

\* the gateway and prefix list collections of NetworkData
gateways == <<igws, nat_gateways, customer_gateways, dx_gateways, prefix_lists>>

catalog == <<local_account_id, tgws, tgw_attachments, tgw_route_tables,
             vpcs, subnets, vpc_route_tables, connectivity, gateways>>

----------------------------------------------------------------------------
(* Python dict operations *)

DictKeys(d) == {d[i].id : i \in DOMAIN d}

DictHas(d, k) == \E i \in DOMAIN d : d[i].id = k

DictIndex(d, k) == CHOOSE i \in DOMAIN d : d[i].id = k

DictGet(d, k) == d[DictIndex(d, k)]

\* d[rec.id] = rec: a new key goes last, an existing key keeps its position
DictPut(d, rec) ==
    IF DictHas(d, rec.id)
    THEN [i \in DOMAIN d |-> IF d[i].id = rec.id THEN rec ELSE d[i]]
    ELSE Append(d, rec)

\* x in list
InList(x, s) == \E i \in DOMAIN s : s[i] = x

----------------------------------------------------------------------------
(* JSON records *)

\* the value of a key the record does not have
Absent == "<absent>"

\* JSON null, Python's None
None == "<None>"

\* rec.get(k) of a key read without a default: None when the key is missing
Get(v) == IF v = Absent THEN None ELSE v

\* the truth value of an Optional[str]: None and "" are false
Truthy(v) == v # None /\ v # ""

\* rec[k] raises KeyError for one of the keys
MissingKey(rec, keys) == \E k \in keys : rec[k] = Absent

\* the number of records a loader's loop handles, given for each record whether
\* handling it raises: the records in front of the first one that raises
Handled(raises) ==
    IF \E i \in DOMAIN raises : raises[i]
    THEN (CHOOSE i \in DOMAIN raises :
              raises[i] /\ \A j \in 1..(i - 1) : ~raises[j]) - 1
    ELSE Len(raises)

----------------------------------------------------------------------------
(* Enumerations *)

AttachmentTypeValues == {"vpc", "vpn", "direct-connect-gateway", "peering",
                         "tgw-peering", "connect", "unknown"}

\* AttachmentType(att_type_str), ValueError -> UNKNOWN
AttachmentType(s) == IF s \in AttachmentTypeValues THEN s ELSE "unknown"

----------------------------------------------------------------------------
(* AWSDataLoader: per-type loading *)

load_metadata ==
    /\ pc = "load_metadata"
    /\ local_account_id' = input.aws_account_id
    /\ pc' = "load_tgws"
    /\ UNCHANGED <<input, tgws, tgw_attachments, tgw_route_tables, vpcs, subnets,
                   vpc_route_tables, issues, connectivity, gateways>>

RECURSIVE LoadTgwRecords(_, _)
LoadTgwRecords(recs, d) ==
    IF recs = <<>> THEN d
    ELSE LoadTgwRecords(Tail(recs),
            DictPut(d, [id |-> Head(recs).TransitGatewayId,
                        owner_id |-> Head(recs).OwnerId]))

load_tgws ==
    /\ pc = "load_tgws"
    /\ LET recs == input.TransitGateways
           n == Handled([i \in DOMAIN recs |->
                            MissingKey(recs[i], {"TransitGatewayId"})])
       IN  /\ tgws' = LoadTgwRecords(SubSeq(recs, 1, n), tgws)
           /\ pc' = IF n = Len(recs) THEN "load_tgw_attachments" ELSE "failed"
    /\ UNCHANGED <<input, local_account_id, tgw_attachments, tgw_route_tables, vpcs,
                   subnets, vpc_route_tables, issues, connectivity, gateways>>

\* IsCrossAccount without the fallback to the local account id
IsCrossAccountNoFallback(resource_owner, tgw_owner, local_id) ==
    tgw_owner # "" /\ resource_owner # "" /\ resource_owner # tgw_owner

\* the is_cross_account computation of _load_tgw_attachments
IsCrossAccount(resource_owner, tgw_owner, local_id) ==
    IF tgw_owner # "" /\ resource_owner # ""
    THEN resource_owner # tgw_owner
    ELSE IF local_id # "" /\ resource_owner # ""
         THEN resource_owner # local_id
         ELSE FALSE

\* the TGWAttachment built from one record of transit-gateway-attachments.json
NewAttachment(att, local_id) ==
    [id |-> att.TransitGatewayAttachmentId,
     tgw_id |-> att.TransitGatewayId,
     type |-> AttachmentType(att.ResourceType),
     resource_id |-> att.ResourceId,
     resource_owner_id |-> att.ResourceOwnerId,
     name |-> IF att.Name # "" THEN att.Name ELSE att.ResourceId,
     cidrs |-> <<>>,
     associated_route_table_id |-> None,
     propagating_to |-> <<>>,
     is_cross_account |-> IsCrossAccount(att.ResourceOwnerId,
                                         att.TransitGatewayOwnerId, local_id),
     tgw_owner_id |-> att.TransitGatewayOwnerId]

RECURSIVE LoadAttachmentRecords(_, _, _)
LoadAttachmentRecords(recs, d, local_id) ==
    IF recs = <<>> THEN d
    ELSE LoadAttachmentRecords(Tail(recs),
            DictPut(d, NewAttachment(Head(recs), local_id)), local_id)

load_tgw_attachments ==
    /\ pc = "load_tgw_attachments"
    /\ LET recs == input.TransitGatewayAttachments
           n == Handled([i \in DOMAIN recs |->
                            MissingKey(recs[i], {"TransitGatewayAttachmentId",
                                                 "TransitGatewayId"})])
       IN  /\ tgw_attachments' =
                 LoadAttachmentRecords(SubSeq(recs, 1, n), tgw_attachments,
                                       local_account_id)
           /\ pc' = IF n = Len(recs) THEN "load_tgw_route_tables" ELSE "failed"
    /\ UNCHANGED <<input, local_account_id, tgws, tgw_route_tables, vpcs, subnets,
                   vpc_route_tables, issues, connectivity, gateways>>

RECURSIVE LoadRouteTableRecords(_, _)
LoadRouteTableRecords(recs, d) ==
    IF recs = <<>> THEN d
    ELSE LoadRouteTableRecords(Tail(recs),
            DictPut(d, [id |-> Head(recs).TransitGatewayRouteTableId,
                        tgw_id |-> Head(recs).TransitGatewayId,
                        name |-> IF Head(recs).Name # "" THEN Head(recs).Name
                                 ELSE Head(recs).TransitGatewayRouteTableId,
                        routes |-> <<>>,
                        associations |-> <<>>,
                        propagations |-> <<>>]))

load_tgw_route_tables ==
    /\ pc = "load_tgw_route_tables"
    /\ LET recs == input.TransitGatewayRouteTables
           n == Handled([i \in DOMAIN recs |->
                            MissingKey(recs[i], {"TransitGatewayRouteTableId",
                                                 "TransitGatewayId"})])
       IN  /\ tgw_route_tables' = LoadRouteTableRecords(SubSeq(recs, 1, n),
                                                        tgw_route_tables)
           /\ pc' = IF n = Len(recs) THEN "load_tgw_route_details" ELSE "failed"
    /\ UNCHANGED <<input, local_account_id, tgws, tgw_attachments, vpcs, subnets,
                   vpc_route_tables, issues, connectivity, gateways>>

(* _load_tgw_route_details.  The three globs yield one file per route table id
   (file names are unique); input.*Files lists them in the order glob yields
   them.  The loops update the route table and the attachments together, so
   they fold over the pair [rts, atts]. *)

\* the association step without the test on the record's state
ApplyAssociationInAnyState(st, rt_id, assoc) ==
    IF Truthy(Get(assoc.TransitGatewayAttachmentId))
    THEN LET att_id == assoc.TransitGatewayAttachmentId
             i == DictIndex(st.rts, rt_id)
             rts1 == [st.rts EXCEPT ![i].associations = Append(@, att_id)]
         IN  IF DictHas(st.atts, att_id)
             THEN [rts |-> rts1,
                   atts |-> [st.atts EXCEPT
                       ![DictIndex(st.atts, att_id)].associated_route_table_id = rt_id]]
             ELSE [rts |-> rts1, atts |-> st.atts]
    ELSE st

\* one record of an associations file, for route table rt_id
ApplyAssociation(st, rt_id, assoc) ==
    IF assoc.State = "associated" /\ Truthy(Get(assoc.TransitGatewayAttachmentId))
    THEN LET att_id == assoc.TransitGatewayAttachmentId
             i == DictIndex(st.rts, rt_id)
             rts1 == [st.rts EXCEPT ![i].associations = Append(@, att_id)]
         IN  IF DictHas(st.atts, att_id)
             THEN [rts |-> rts1,
                   atts |-> [st.atts EXCEPT
                       ![DictIndex(st.atts, att_id)].associated_route_table_id = rt_id]]
             ELSE [rts |-> rts1, atts |-> st.atts]
    ELSE st

RECURSIVE ApplyAssociations(_, _, _)
ApplyAssociations(st, rt_id, recs) ==
    IF recs = <<>> THEN st
    ELSE ApplyAssociations(ApplyAssociation(st, rt_id, Head(recs)), rt_id, Tail(recs))

RECURSIVE LoadAssociationFiles(_, _)
LoadAssociationFiles(files, st) ==
    IF files = <<>> THEN st
    ELSE LoadAssociationFiles(Tail(files),
            IF DictHas(st.rts, Head(files).rt_id)
            THEN ApplyAssociations(st, Head(files).rt_id, Head(files).Associations)
            ELSE st)

\* one record of a propagations file, for route table rt_id
ApplyPropagation(st, rt_id, prop) ==
    IF prop.State = "enabled" /\ Truthy(Get(prop.TransitGatewayAttachmentId))
    THEN LET att_id == prop.TransitGatewayAttachmentId
             i == DictIndex(st.rts, rt_id)
             rts1 == [st.rts EXCEPT ![i].propagations = Append(@, att_id)]
         IN  IF DictHas(st.atts, att_id)
             THEN [rts |-> rts1,
                   atts |-> [st.atts EXCEPT
                       ![DictIndex(st.atts, att_id)].propagating_to = Append(@, rt_id)]]
             ELSE [rts |-> rts1, atts |-> st.atts]
    ELSE st

RECURSIVE ApplyPropagations(_, _, _)
ApplyPropagations(st, rt_id, recs) ==
    IF recs = <<>> THEN st
    ELSE ApplyPropagations(ApplyPropagation(st, rt_id, Head(recs)), rt_id, Tail(recs))

RECURSIVE LoadPropagationFiles(_, _)
LoadPropagationFiles(files, st) ==
    IF files = <<>> THEN st
    ELSE LoadPropagationFiles(Tail(files),
            IF DictHas(st.rts, Head(files).rt_id)
            THEN ApplyPropagations(st, Head(files).rt_id, Head(files).Propagations)
            ELSE st)

\* the TGWRoute built from one record of a routes file; att_id is None, or the
\* TransitGatewayAttachmentId of the first entry of TransitGatewayAttachments
\* (the loop breaks after one pass), None when the entry has no such key
NewTGWRoute(route) ==
    [destination_cidr |-> route.DestinationCidrBlock,
     prefix_list_id |-> Get(route.PrefixListId),
     attachment_id |-> IF route.TransitGatewayAttachments = <<>> THEN None
                       ELSE Get(Head(route.TransitGatewayAttachments)),
     route_type |-> IF route.Type = "propagated" THEN "propagated" ELSE "static",
     state |-> IF route.State = "blackhole" THEN "blackhole" ELSE "active"]

RECURSIVE AppendRoutes(_, _)
AppendRoutes(routes, recs) ==
    IF recs = <<>> THEN routes
    ELSE AppendRoutes(Append(routes, NewTGWRoute(Head(recs))), Tail(recs))

RECURSIVE LoadRouteFiles(_, _)
LoadRouteFiles(files, rts) ==
    IF files = <<>> THEN rts
    ELSE LoadRouteFiles(Tail(files),
            IF DictHas(rts, Head(files).rt_id)
            THEN [rts EXCEPT ![DictIndex(rts, Head(files).rt_id)].routes =
                                  AppendRoutes(@, Head(files).Routes)]
            ELSE rts)

LoadTgwRouteDetails(rts, atts) ==
    LET a == LoadAssociationFiles(input.AssociationFiles, [rts |-> rts, atts |-> atts])
        p == LoadPropagationFiles(input.PropagationFiles, a)
    IN  [rts |-> LoadRouteFiles(input.RouteFiles, p.rts), atts |-> p.atts]

load_tgw_route_details ==
    /\ pc = "load_tgw_route_details"
    /\ LET st == LoadTgwRouteDetails(tgw_route_tables, tgw_attachments)
       IN  /\ tgw_route_tables' = st.rts
           /\ tgw_attachments' = st.atts
    /\ pc' = "load_vpcs"
    /\ UNCHANGED <<input, local_account_id, tgws, vpcs, subnets, vpc_route_tables,
                   issues, connectivity, gateways>>

\* cidrs = [CidrBlock], then every association's CidrBlock not yet in the list
RECURSIVE VpcCidrs(_, _)
VpcCidrs(cidrs, assocs) ==
    IF assocs = <<>> THEN cidrs
    ELSE VpcCidrs(IF InList(Head(assocs), cidrs) THEN cidrs
                  ELSE Append(cidrs, Head(assocs)), Tail(assocs))

NewVPC(vpc) ==
    [id |-> vpc.VpcId,
     name |-> IF vpc.Name # "" THEN vpc.Name ELSE vpc.VpcId,
     cidrs |-> VpcCidrs(<<vpc.CidrBlock>>, vpc.CidrBlockAssociationSet),
     tgw_attachment_id |-> None,
     main_route_table_id |-> None,
     igw_id |-> None,
     nat_gateway_ids |-> <<>>]

\* whether handling one record of vpcs.json raises KeyError: an association
\* without CidrBlock is not in cidrs, so assoc["CidrBlock"] is evaluated
NewVPCRaises(vpc) ==
    \/ \E a \in DOMAIN vpc.CidrBlockAssociationSet :
          vpc.CidrBlockAssociationSet[a] = Absent
    \/ MissingKey(vpc, {"VpcId"})

RECURSIVE LoadVpcRecords(_, _)
LoadVpcRecords(recs, d) ==
    IF recs = <<>> THEN d
    ELSE LoadVpcRecords(Tail(recs), DictPut(d, NewVPC(Head(recs))))

load_vpcs ==
    /\ pc = "load_vpcs"
    /\ LET recs == input.Vpcs
           n == Handled([i \in DOMAIN recs |-> NewVPCRaises(recs[i])])
       IN  /\ vpcs' = LoadVpcRecords(SubSeq(recs, 1, n), vpcs)
           /\ pc' = IF n = Len(recs) THEN "load_subnets" ELSE "failed"
    /\ UNCHANGED <<input, local_account_id, tgws, tgw_attachments, tgw_route_tables,
                   subnets, vpc_route_tables, issues, connectivity, gateways>>

RECURSIVE LoadSubnetRecords(_, _)
LoadSubnetRecords(recs, d) ==
    IF recs = <<>> THEN d
    ELSE LoadSubnetRecords(Tail(recs),
            DictPut(d, [id |-> Head(recs).SubnetId,
                        vpc_id |-> Head(recs).VpcId,
                        route_table_id |-> None,
                        subnet_type |-> "isolated"]))

load_subnets ==
    /\ pc = "load_subnets"
    /\ LET recs == input.Subnets
           n == Handled([i \in DOMAIN recs |->
                            MissingKey(recs[i], {"SubnetId", "VpcId"})])
       IN  /\ subnets' = LoadSubnetRecords(SubSeq(recs, 1, n), subnets)
           /\ pc' = IF n = Len(recs) THEN "load_vpc_route_tables" ELSE "failed"
    /\ UNCHANGED <<input, local_account_id, tgws, tgw_attachments, tgw_route_tables,
                   vpcs, vpc_route_tables, issues, connectivity, gateways>>

----------------------------------------------------------------------------
(* Python str operations *)

\* str.startswith
StartsWith(s, prefix) ==
    Len(s) >= Len(prefix) /\ SubSeq(s, 1, Len(prefix)) = prefix

\* ord() of the characters that occur in the model's strings
Ord(c) ==
    CASE c = "-" -> 45 [] c = "." -> 46 [] c = "/" -> 47
      [] c = "0" -> 48 [] c = "1" -> 49 [] c = "2" -> 50 [] c = "3" -> 51
      [] c = "4" -> 52 [] c = "5" -> 53 [] c = "6" -> 54 [] c = "7" -> 55
      [] c = "8" -> 56 [] c = "9" -> 57 [] c = ":" -> 58
      [] c = "a" -> 97 [] c = "b" -> 98 [] c = "c" -> 99 [] c = "d" -> 100
      [] c = "f" -> 102 [] c = "l" -> 108 [] c = "p" -> 112 [] c = "x" -> 120

\* a < b on str: by code point, a proper prefix first
RECURSIVE StrLess(_, _)
StrLess(a, b) ==
    IF Len(b) = 0 THEN FALSE
    ELSE IF Len(a) = 0 THEN TRUE
    ELSE LET ca == Ord(SubSeq(a, 1, 1))
             cb == Ord(SubSeq(b, 1, 1))
         IN  IF ca # cb THEN ca < cb
             ELSE StrLess(SubSeq(a, 2, Len(a)), SubSeq(b, 2, Len(b)))

\* sorted(list(S)) for a set S of str
RECURSIVE Sorted(_)
Sorted(S) ==
    IF S = {} THEN <<>>
    ELSE LET m == CHOOSE x \in S : \A y \in S : y = x \/ StrLess(x, y)
         IN  <<m>> \o Sorted(S \ {m})

----------------------------------------------------------------------------
(* _load_vpc_route_tables *)

ParseVpcRouteTarget(route) ==
    LET gw == Get(route.GatewayId)
    IN  IF Truthy(gw) /\ gw = "local" THEN [type |-> "local", id |-> "local"]
        ELSE IF Truthy(gw) /\ StartsWith(gw, "igw-") THEN [type |-> "igw", id |-> gw]
        ELSE IF Truthy(gw) /\ StartsWith(gw, "vgw-") THEN [type |-> "vgw", id |-> gw]
        ELSE IF Truthy(gw) /\ StartsWith(gw, "eigw-") THEN [type |-> "eigw", id |-> gw]
        ELSE IF Truthy(gw) /\ StartsWith(gw, "vpce-") THEN [type |-> "vpce", id |-> gw]
        ELSE IF Truthy(Get(route.NatGatewayId))
             THEN [type |-> "nat", id |-> route.NatGatewayId]
        ELSE IF Truthy(Get(route.TransitGatewayId))
             THEN [type |-> "tgw", id |-> route.TransitGatewayId]
        ELSE IF Truthy(Get(route.VpcPeeringConnectionId))
             THEN [type |-> "pcx", id |-> route.VpcPeeringConnectionId]
        ELSE IF Truthy(Get(route.NetworkInterfaceId))
             THEN [type |-> "eni", id |-> route.NetworkInterfaceId]
        ELSE [type |-> "unknown", id |-> ""]

NewVPCRoute(route) ==
    LET t == ParseVpcRouteTarget(route)
    IN  [destination |-> IF Truthy(Get(route.DestinationCidrBlock))
                         THEN route.DestinationCidrBlock
                         ELSE IF Truthy(Get(route.DestinationPrefixListId))
                         THEN route.DestinationPrefixListId
                         ELSE "",
         target_type |-> t.type,
         target_id |-> t.id,
         state |-> IF route.State = "blackhole" THEN "blackhole" ELSE "active"]

RECURSIVE AppendVpcRoutes(_, _)
AppendVpcRoutes(routes, recs) ==
    IF recs = <<>> THEN routes
    ELSE AppendVpcRoutes(Append(routes, NewVPCRoute(Head(recs))), Tail(recs))

\* one entry of a route table's Associations; st = [rt, vpcs, subnets]
ApplyVpcAssociation(st, rt, assoc) ==
    LET st1 == IF assoc.Main
               THEN [st EXCEPT
                       !.rt.is_main = TRUE,
                       !.vpcs = IF DictHas(st.vpcs, rt.VpcId)
                                THEN [st.vpcs EXCEPT
                                        ![DictIndex(st.vpcs, rt.VpcId)].main_route_table_id
                                            = rt.RouteTableId]
                                ELSE st.vpcs]
               ELSE st
    IN  IF Truthy(Get(assoc.SubnetId))
        THEN [st1 EXCEPT
                !.rt.subnet_ids = Append(@, assoc.SubnetId),
                !.subnets = IF DictHas(st1.subnets, assoc.SubnetId)
                            THEN [st1.subnets EXCEPT
                                    ![DictIndex(st1.subnets, assoc.SubnetId)].route_table_id
                                        = rt.RouteTableId]
                            ELSE st1.subnets]
        ELSE st1

RECURSIVE ApplyVpcAssociations(_, _, _)
ApplyVpcAssociations(st, rt, assocs) ==
    IF assocs = <<>> THEN st
    ELSE ApplyVpcAssociations(ApplyVpcAssociation(st, rt, Head(assocs)), rt, Tail(assocs))

\* one record of vpc-route-tables.json; cat = [vrts, vpcs, subnets]
LoadVpcRouteTable(cat, rt) ==
    LET new == [id |-> rt.RouteTableId,
                vpc_id |-> rt.VpcId,
                is_main |-> FALSE,
                routes |-> <<>>,
                subnet_ids |-> <<>>]
        st == ApplyVpcAssociations([rt |-> new, vpcs |-> cat.vpcs,
                                    subnets |-> cat.subnets], rt, rt.Associations)
    IN  [vrts |-> DictPut(cat.vrts,
                          [st.rt EXCEPT !.routes = AppendVpcRoutes(@, rt.Routes)]),
         vpcs |-> st.vpcs,
         subnets |-> st.subnets]

RECURSIVE LoadVpcRouteTableRecords(_, _)
LoadVpcRouteTableRecords(recs, cat) ==
    IF recs = <<>> THEN cat
    ELSE LoadVpcRouteTableRecords(Tail(recs), LoadVpcRouteTable(cat, Head(recs)))

load_vpc_route_tables ==
    /\ pc = "load_vpc_route_tables"
    /\ LET recs == input.RouteTables
           n == Handled([i \in DOMAIN recs |->
                            MissingKey(recs[i], {"RouteTableId", "VpcId"})])
           cat == LoadVpcRouteTableRecords(SubSeq(recs, 1, n),
                      [vrts |-> vpc_route_tables, vpcs |-> vpcs, subnets |-> subnets])
       IN  /\ vpc_route_tables' = cat.vrts
           /\ vpcs' = cat.vpcs
           /\ subnets' = cat.subnets
           /\ pc' = IF n = Len(recs) THEN "load_igws" ELSE "failed"
    /\ UNCHANGED <<input, local_account_id, tgws, tgw_attachments, tgw_route_tables,
                   issues, connectivity, gateways>>

\* one entry of an internet gateway's Attachments; st = [igws, vpcs]
ApplyIgwAttachment(st, igw, att) ==
    IF att.State = "available"
    THEN [igws |-> DictPut(st.igws, [id |-> igw.InternetGatewayId,
                                      vpc_id |-> Get(att.VpcId)]),
          vpcs |-> IF DictHas(st.vpcs, Get(att.VpcId))
                   THEN [st.vpcs EXCEPT
                           ![DictIndex(st.vpcs, att.VpcId)].igw_id
                               = igw.InternetGatewayId]
                   ELSE st.vpcs]
    ELSE st

RECURSIVE ApplyIgwAttachments(_, _, _)
ApplyIgwAttachments(st, igw, atts) ==
    IF atts = <<>> THEN st
    ELSE ApplyIgwAttachments(ApplyIgwAttachment(st, igw, Head(atts)), igw, Tail(atts))

\* whether handling one record of internet-gateways.json raises KeyError:
\* igw["InternetGatewayId"] is evaluated for an available attachment
LoadIgwRaises(igw) ==
    /\ MissingKey(igw, {"InternetGatewayId"})
    /\ \E a \in DOMAIN igw.Attachments : igw.Attachments[a].State = "available"

RECURSIVE LoadIgwRecords(_, _)
LoadIgwRecords(recs, st) ==
    IF recs = <<>> THEN st
    ELSE LoadIgwRecords(Tail(recs),
            ApplyIgwAttachments(st, Head(recs), Head(recs).Attachments))

load_igws ==
    /\ pc = "load_igws"
    /\ LET recs == input.InternetGateways
           n == Handled([i \in DOMAIN recs |-> LoadIgwRaises(recs[i])])
           st == LoadIgwRecords(SubSeq(recs, 1, n), [igws |-> igws, vpcs |-> vpcs])
       IN  /\ igws' = st.igws
           /\ vpcs' = st.vpcs
           /\ pc' = IF n = Len(recs) THEN "load_nat_gateways" ELSE "failed"
    /\ UNCHANGED <<input, local_account_id, tgws, tgw_attachments, tgw_route_tables,
                   subnets, vpc_route_tables, issues, connectivity, nat_gateways,
                   customer_gateways, dx_gateways, prefix_lists>>

\* one record of nat-gateways.json; st = [nats, vpcs]
LoadNatGateway(st, nat) ==
    [nats |-> DictPut(st.nats,
                      [id |-> nat.NatGatewayId,
                       vpc_id |-> Get(nat.VpcId),
                       subnet_id |-> Get(nat.SubnetId),
                       state |-> Get(nat.State),
                       name |-> IF nat.Name # "" THEN nat.Name ELSE nat.NatGatewayId]),
     vpcs |-> IF DictHas(st.vpcs, Get(nat.VpcId))
              THEN [st.vpcs EXCEPT
                      ![DictIndex(st.vpcs, nat.VpcId)].nat_gateway_ids
                          = Append(@, nat.NatGatewayId)]
              ELSE st.vpcs]

RECURSIVE LoadNatGatewayRecords(_, _)
LoadNatGatewayRecords(recs, st) ==
    IF recs = <<>> THEN st
    ELSE LoadNatGatewayRecords(Tail(recs), LoadNatGateway(st, Head(recs)))

load_nat_gateways ==
    /\ pc = "load_nat_gateways"
    /\ LET recs == input.NatGateways
           n == Handled([i \in DOMAIN recs |-> MissingKey(recs[i], {"NatGatewayId"})])
           st == LoadNatGatewayRecords(SubSeq(recs, 1, n),
                                       [nats |-> nat_gateways, vpcs |-> vpcs])
       IN  /\ nat_gateways' = st.nats
           /\ vpcs' = st.vpcs
           /\ pc' = IF n = Len(recs) THEN "load_peerings" ELSE "failed"
    /\ UNCHANGED <<input, local_account_id, tgws, tgw_attachments, tgw_route_tables,
                   subnets, vpc_route_tables, issues, connectivity, igws,
                   customer_gateways, dx_gateways, prefix_lists>>

NewVPCPeering(pcx) ==
    [id |-> pcx.VpcPeeringConnectionId,
     name |-> IF pcx.Name # "" THEN pcx.Name ELSE pcx.VpcPeeringConnectionId,
     status |-> pcx.StatusCode,
     requester_vpc_id |-> pcx.RequesterVpcId,
     accepter_vpc_id |-> pcx.AccepterVpcId]

RECURSIVE LoadPeeringRecords(_, _)
LoadPeeringRecords(recs, d) ==
    IF recs = <<>> THEN d
    ELSE LoadPeeringRecords(Tail(recs), DictPut(d, NewVPCPeering(Head(recs))))

load_peerings ==
    /\ pc = "load_peerings"
    /\ LET recs == input.VpcPeeringConnections
           n == Handled([i \in DOMAIN recs |->
                            MissingKey(recs[i], {"VpcPeeringConnectionId"})])
       IN  /\ peerings' = LoadPeeringRecords(SubSeq(recs, 1, n), peerings)
           /\ pc' = IF n = Len(recs) THEN "load_vpn_connections" ELSE "failed"
    /\ UNCHANGED <<input, local_account_id, tgws, tgw_attachments, tgw_route_tables,
                   vpcs, subnets, vpc_route_tables, vpn_connections, dx_connections,
                   dx_vifs, issues, gateways>>

\* a VgwTelemetry record; telem.get("Status", "DOWN") gives "DOWN" only for a
\* record without the key, the key's value otherwise (None, "" or a status)
NewVPNTunnel(telem) ==
    [outside_ip |-> telem.OutsideIpAddress,
     status |-> IF telem.Status = Absent THEN "DOWN" ELSE telem.Status,
     status_message |-> telem.StatusMessage]

NewVPNConnection(vpn) ==
    [id |-> vpn.VpnConnectionId,
     name |-> IF vpn.Name # "" THEN vpn.Name ELSE vpn.VpnConnectionId,
     state |-> vpn.State,
     tgw_id |-> Get(vpn.TransitGatewayId),
     tunnels |-> [t \in DOMAIN vpn.VgwTelemetry |-> NewVPNTunnel(vpn.VgwTelemetry[t])]]

RECURSIVE LoadVpnRecords(_, _)
LoadVpnRecords(recs, d) ==
    IF recs = <<>> THEN d
    ELSE LoadVpnRecords(Tail(recs), DictPut(d, NewVPNConnection(Head(recs))))

load_vpn_connections ==
    /\ pc = "load_vpn_connections"
    /\ vpn_connections' = LoadVpnRecords(input.VpnConnections, vpn_connections)
    /\ pc' = "load_customer_gateways"
    /\ UNCHANGED <<input, local_account_id, tgws, tgw_attachments, tgw_route_tables,
                   vpcs, subnets, vpc_route_tables, peerings, dx_connections,
                   dx_vifs, issues, gateways>>

NewCustomerGateway(cgw) ==
    [id |-> cgw.CustomerGatewayId,
     name |-> IF cgw.Name # "" THEN cgw.Name ELSE cgw.CustomerGatewayId,
     ip_address |-> cgw.IpAddress,
     state |-> cgw.State]

RECURSIVE LoadCustomerGatewayRecords(_, _)
LoadCustomerGatewayRecords(recs, d) ==
    IF recs = <<>> THEN d
    ELSE LoadCustomerGatewayRecords(Tail(recs),
                                    DictPut(d, NewCustomerGateway(Head(recs))))

load_customer_gateways ==
    /\ pc = "load_customer_gateways"
    /\ customer_gateways' =
          LoadCustomerGatewayRecords(input.CustomerGateways, customer_gateways)
    /\ pc' = "load_dx_connections"
    /\ UNCHANGED <<input, local_account_id, tgws, tgw_attachments, tgw_route_tables,
                   vpcs, subnets, vpc_route_tables, issues, connectivity, igws,
                   nat_gateways, dx_gateways, prefix_lists>>

\* name: connectionName, or the Name tag, or the id
NewDXConnection(conn) ==
    [id |-> conn.connectionId,
     name |-> IF conn.connectionName # "" THEN conn.connectionName
              ELSE IF conn.Name # "" THEN conn.Name
              ELSE conn.connectionId,
     state |-> conn.connectionState,
     location |-> conn.location]

RECURSIVE LoadDxConnectionRecords(_, _)
LoadDxConnectionRecords(recs, d) ==
    IF recs = <<>> THEN d
    ELSE LoadDxConnectionRecords(Tail(recs), DictPut(d, NewDXConnection(Head(recs))))

load_dx_connections ==
    /\ pc = "load_dx_connections"
    /\ dx_connections' = LoadDxConnectionRecords(input.connections, dx_connections)
    /\ pc' = "load_dx_gateways"
    /\ UNCHANGED <<input, local_account_id, tgws, tgw_attachments, tgw_route_tables,
                   vpcs, subnets, vpc_route_tables, peerings, vpn_connections,
                   dx_vifs, issues, gateways>>

NewDXGateway(gw) ==
    [id |-> gw.directConnectGatewayId,
     name |-> IF gw.directConnectGatewayName # "" THEN gw.directConnectGatewayName
              ELSE gw.directConnectGatewayId,
     owner_account |-> gw.ownerAccount,
     state |-> gw.directConnectGatewayState]

RECURSIVE LoadDxGatewayRecords(_, _)
LoadDxGatewayRecords(recs, d) ==
    IF recs = <<>> THEN d
    ELSE LoadDxGatewayRecords(Tail(recs), DictPut(d, NewDXGateway(Head(recs))))

load_dx_gateways ==
    /\ pc = "load_dx_gateways"
    /\ dx_gateways' = LoadDxGatewayRecords(input.directConnectGateways, dx_gateways)
    /\ pc' = "load_dx_vifs"
    /\ UNCHANGED <<input, local_account_id, tgws, tgw_attachments, tgw_route_tables,
                   vpcs, subnets, vpc_route_tables, issues, connectivity, igws,
                   nat_gateways, customer_gateways, prefix_lists>>

\* a bgpPeers record; peer.get("bgpStatus", "down") gives "down" only for a
\* record without the key, the key's value otherwise (None, "" or a status)
NewBGPPeer(peer) ==
    [asn |-> peer.asn,
     customer_address |-> peer.customerAddress,
     bgp_status |-> IF peer.bgpStatus = Absent THEN "down" ELSE peer.bgpStatus]

\* name: virtualInterfaceName, or the Name tag, or the id
NewDXVirtualInterface(vif) ==
    [id |-> vif.virtualInterfaceId,
     name |-> IF vif.virtualInterfaceName # "" THEN vif.virtualInterfaceName
              ELSE IF vif.Name # "" THEN vif.Name
              ELSE vif.virtualInterfaceId,
     state |-> vif.virtualInterfaceState,
     connection_id |-> vif.connectionId,
     bgp_peers |-> [b \in DOMAIN vif.bgpPeers |-> NewBGPPeer(vif.bgpPeers[b])]]

RECURSIVE LoadDxVifRecords(_, _)
LoadDxVifRecords(recs, d) ==
    IF recs = <<>> THEN d
    ELSE LoadDxVifRecords(Tail(recs), DictPut(d, NewDXVirtualInterface(Head(recs))))

load_dx_vifs ==
    /\ pc = "load_dx_vifs"
    /\ dx_vifs' = LoadDxVifRecords(input.virtualInterfaces, dx_vifs)
    /\ pc' = "load_prefix_lists"
    /\ UNCHANGED <<input, local_account_id, tgws, tgw_attachments, tgw_route_tables,
                   vpcs, subnets, vpc_route_tables, peerings, vpn_connections,
                   dx_connections, issues, gateways>>

\* the name _load_prefix_lists stores: the last dot-separated part of a name
\* that starts with "com.amazonaws." and has four parts or more, on the prefix
\* list names of the model
PrefixListName(name) ==
    CASE name = "com.amazonaws.us-east-1.s3"       -> "s3"
      [] name = "com.amazonaws.us-east-1.dynamodb" -> "dynamodb"
      [] name = "com.amazonaws.global.cloudfront.origin-facing" -> "origin-facing"
      [] name = "com.amazonaws.s3"                 -> "com.amazonaws.s3"
      [] name = "corp-networks"                    -> "corp-networks"
      [] name = ""                                 -> ""

RECURSIVE LoadPrefixListRecords(_, _)
LoadPrefixListRecords(recs, d) ==
    IF recs = <<>> THEN d
    ELSE LoadPrefixListRecords(Tail(recs),
            DictPut(d, [id |-> Head(recs).PrefixListId,
                        name |-> PrefixListName(Head(recs).PrefixListName)]))

load_prefix_lists ==
    /\ pc = "load_prefix_lists"
    /\ LET recs == input.PrefixLists
           n == Handled([i \in DOMAIN recs |-> MissingKey(recs[i], {"PrefixListId"})])
       IN  /\ prefix_lists' = LoadPrefixListRecords(SubSeq(recs, 1, n), prefix_lists)
           /\ pc' = IF n = Len(recs) THEN "correlate_data" ELSE "failed"
    /\ UNCHANGED <<input, local_account_id, tgws, tgw_attachments, tgw_route_tables,
                   vpcs, subnets, vpc_route_tables, issues, connectivity, igws,
                   nat_gateways, customer_gateways, dx_gateways>>

----------------------------------------------------------------------------
(* AWSDataLoader: correlation and classification *)

\* the loop of _correlate_data over attachments i..; st = [atts, vpcs]
RECURSIVE LinkVpcs(_, _)
LinkVpcs(st, i) ==
    IF i > Len(st.atts) THEN st
    ELSE LET att == st.atts[i]
         IN  IF att.type = "vpc" /\ DictHas(st.vpcs, att.resource_id)
             THEN LET v == DictIndex(st.vpcs, att.resource_id)
                  IN  LinkVpcs([atts |-> [st.atts EXCEPT ![i].cidrs = st.vpcs[v].cidrs,
                                                         ![i].name = st.vpcs[v].name],
                                vpcs |-> [st.vpcs EXCEPT ![v].tgw_attachment_id = att.id]],
                               i + 1)
             ELSE LinkVpcs(st, i + 1)

\* _correlate_data that copies CIDRs and name but sets no back-reference
CorrelateDataWithoutBackReference(atts, vs) ==
    [atts |-> LinkVpcs([atts |-> atts, vpcs |-> vs], 1).atts, vpcs |-> vs]

\* _correlate_data that stores the attachment's TGW id, not the attachment's id,
\* in the VPC
CorrelateDataStoringTgwId(atts, vs) ==
    LET st == LinkVpcs([atts |-> atts, vpcs |-> vs], 1)
    IN  [atts |-> st.atts,
         vpcs |-> [v \in DOMAIN st.vpcs |->
                     IF st.vpcs[v].tgw_attachment_id = None THEN st.vpcs[v]
                     ELSE [st.vpcs[v] EXCEPT
                             !.tgw_attachment_id = DictGet(atts, @).tgw_id]]]

CorrelateData(atts, vs) == LinkVpcs([atts |-> atts, vpcs |-> vs], 1)

\* the subscript self.data.vpcs[vpc_id] evaluated for every VPC attachment, with
\* no membership test in front of it
CorrelateDataRaisesWithoutMembershipTest(atts, vs) ==
    \E i \in DOMAIN atts :
        /\ atts[i].type = "vpc"
        /\ ~DictHas(vs, atts[i].resource_id)

\* whether _correlate_data raises KeyError: its one subscript,
\* self.data.vpcs[vpc_id], is evaluated for a VPC attachment whose resource id
\* passed the membership test, and raises when the id is no key of vpcs
CorrelateDataRaises(atts, vs) ==
    \E i \in DOMAIN atts :
        /\ atts[i].type = "vpc"
        /\ DictHas(vs, atts[i].resource_id)
        /\ ~DictHas(vs, atts[i].resource_id)

\* a load() that goes from VPC linking straight to subnet classification
CorrelateDataSkippingRecovery ==
    /\ pc = "correlate_data"
    /\ LET st == CorrelateData(tgw_attachments, vpcs)
       IN  /\ tgw_attachments' = st.atts
           /\ vpcs' = st.vpcs
    /\ pc' = "classify_subnets"
    /\ UNCHANGED <<input, local_account_id, tgws, tgw_route_tables, subnets,
                   vpc_route_tables, issues, connectivity, gateways>>

\* an exception leaves load() and main(): the run ends without a report
correlate_data ==
    /\ pc = "correlate_data"
    /\ IF CorrelateDataRaises(tgw_attachments, vpcs)
       THEN /\ pc' = "failed"
            /\ UNCHANGED <<tgw_attachments, vpcs>>
       ELSE /\ LET st == CorrelateData(tgw_attachments, vpcs)
               IN  /\ tgw_attachments' = st.atts
                   /\ vpcs' = st.vpcs
            /\ pc' = "extract_cross_account_cidrs"
    /\ UNCHANGED <<input, local_account_id, tgws, tgw_route_tables, subnets,
                   vpc_route_tables, issues, connectivity, gateways>>

\* att_cidrs that also collects the destinations of static routes
AttCidrsOfAllRouteTypes(rts, att_id) ==
    UNION {{rts[t].routes[r].destination_cidr :
               r \in {q \in DOMAIN rts[t].routes :
                        /\ rts[t].routes[q].attachment_id = att_id
                        /\ rts[t].routes[q].destination_cidr # ""}} :
           t \in DOMAIN rts}

\* att_cidrs[att_id]: destination CIDRs of the propagated routes naming att_id
AttCidrs(rts, att_id) ==
    UNION {{rts[t].routes[r].destination_cidr :
               r \in {q \in DOMAIN rts[t].routes :
                        /\ rts[t].routes[q].route_type = "propagated"
                        /\ Truthy(rts[t].routes[q].attachment_id)
                        /\ rts[t].routes[q].attachment_id = att_id
                        /\ rts[t].routes[q].destination_cidr # ""}} :
           t \in DOMAIN rts}

\* the recovery step without the test that the attachment has no CIDRs yet
RecoverCidrsOverwriting(att, rts) ==
    IF att.type \in {"vpc", "vpn"} /\ AttCidrs(rts, att.id) # {}
    THEN [att EXCEPT !.cidrs = Sorted(AttCidrs(rts, att.id))]
    ELSE att

\* the body of the second loop of _extract_cross_account_cidrs for one attachment
RecoverCidrs(att, rts) ==
    LET a1 == IF att.type = "vpc" /\ att.cidrs = <<>> /\ AttCidrs(rts, att.id) # {}
              THEN [att EXCEPT !.cidrs = Sorted(AttCidrs(rts, att.id))]
              ELSE att
    IN  IF a1.type = "vpn" /\ a1.cidrs = <<>> /\ AttCidrs(rts, a1.id) # {}
        THEN [a1 EXCEPT !.cidrs = Sorted(AttCidrs(rts, a1.id))]
        ELSE a1

ExtractCrossAccountCidrs(atts, rts) ==
    [i \in DOMAIN atts |-> RecoverCidrs(atts[i], rts)]

extract_cross_account_cidrs ==
    /\ pc = "extract_cross_account_cidrs"
    /\ tgw_attachments' = ExtractCrossAccountCidrs(tgw_attachments, tgw_route_tables)
    /\ pc' = "classify_subnets"
    /\ UNCHANGED <<input, local_account_id, tgws, tgw_route_tables, vpcs, subnets,
                   vpc_route_tables, issues, connectivity, gateways>>

\* the route scan that passes over blackhole routes
RECURSIVE ScanActiveRoutes(_, _)
ScanActiveRoutes(routes, current) ==
    IF routes = <<>> THEN current
    ELSE LET route == Head(routes)
         IN  IF route.state # "blackhole" /\ route.destination \in {"0.0.0.0/0", "::/0"}
             THEN IF route.target_type = "igw" THEN "public"
                  ELSE IF route.target_type = "nat" THEN "private"
                  ELSE IF route.target_type = "tgw" THEN "tgw"
                  ELSE ScanActiveRoutes(Tail(routes), current)
             ELSE ScanActiveRoutes(Tail(routes), current)

\* the route scan of _classify_subnets: the subnet type after scanning routes
RECURSIVE ScanRoutes(_, _)
ScanRoutes(routes, current) ==
    IF routes = <<>> THEN current
    ELSE LET route == Head(routes)
         IN  IF route.destination \in {"0.0.0.0/0", "::/0"}
             THEN IF route.target_type = "igw" THEN "public"
                  ELSE IF route.target_type = "nat" THEN "private"
                  ELSE IF route.target_type = "tgw" THEN "tgw"
                  ELSE ScanRoutes(Tail(routes), current)
             ELSE ScanRoutes(Tail(routes), current)

\* EffectiveRouteTableId that prefers the VPC's main table to the explicit one
EffectiveRouteTableIdMainFirst(subnet, vs) ==
    IF DictHas(vs, subnet.vpc_id)
       /\ Truthy(DictGet(vs, subnet.vpc_id).main_route_table_id)
    THEN DictGet(vs, subnet.vpc_id).main_route_table_id
    ELSE subnet.route_table_id

\* rt_id as _classify_subnets resolves it for one subnet
EffectiveRouteTableId(subnet, vs) ==
    IF Truthy(subnet.route_table_id) THEN subnet.route_table_id
    ELSE IF DictHas(vs, subnet.vpc_id)
         THEN DictGet(vs, subnet.vpc_id).main_route_table_id
         ELSE subnet.route_table_id

\* a classification that also records the route table it resolved in the subnet
ClassifySubnetRecordingRouteTable(subnet, vs, vrts) ==
    LET rt_id == EffectiveRouteTableId(subnet, vs)
    IN  IF ~Truthy(rt_id) \/ ~DictHas(vrts, rt_id)
        THEN [subnet EXCEPT !.subnet_type = "isolated"]
        ELSE [subnet EXCEPT
                !.route_table_id = rt_id,
                !.subnet_type = ScanRoutes(DictGet(vrts, rt_id).routes, @)]

ClassifySubnet(subnet, vs, vrts) ==
    LET rt_id == EffectiveRouteTableId(subnet, vs)
    IN  IF ~Truthy(rt_id) \/ ~DictHas(vrts, rt_id)
        THEN [subnet EXCEPT !.subnet_type = "isolated"]
        ELSE [subnet EXCEPT
                !.subnet_type = ScanRoutes(DictGet(vrts, rt_id).routes, @)]

\* whether _classify_subnets raises for one subnet: vpc.main_route_table_id is
\* read only when the subnet has no route table and vpcs.get() found the VPC
\* (AttributeError otherwise), and self.data.vpc_route_tables[rt_id] is
\* evaluated only past the test that rt_id is a key (KeyError otherwise)
ClassifySubnetRaises(subnet, vs, vrts) ==
    LET rt_id == EffectiveRouteTableId(subnet, vs)
    IN  \/ /\ ~Truthy(subnet.route_table_id)
           /\ DictHas(vs, subnet.vpc_id)
           /\ ~DictHas(vs, subnet.vpc_id)
        \/ /\ ~(~Truthy(rt_id) \/ ~DictHas(vrts, rt_id))
           /\ ~DictHas(vrts, rt_id)

classify_subnets ==
    /\ pc = "classify_subnets"
    /\ IF \E i \in DOMAIN subnets :
             ClassifySubnetRaises(subnets[i], vpcs, vpc_route_tables)
       THEN /\ pc' = "failed"
            /\ UNCHANGED subnets
       ELSE /\ subnets' = [i \in DOMAIN subnets |->
                              ClassifySubnet(subnets[i], vpcs, vpc_route_tables)]
            /\ pc' = "show_stats"
    /\ UNCHANGED <<input, local_account_id, tgws, tgw_attachments, tgw_route_tables,
                   vpcs, vpc_route_tables, issues, connectivity, gateways>>

----------------------------------------------------------------------------
(* ipaddress, as far as the analyzer uses it *)

Pow2(n) == 2 ^ n

\* the number of network bits of octet i (1-based) under a prefix length
KeptBits(i, prefixlen) ==
    IF prefixlen >= 8 * i THEN 8
    ELSE IF prefixlen <= 8 * (i - 1) THEN 0
    ELSE prefixlen - 8 * (i - 1)

\* address & netmask, and address | hostmask, octet by octet
MaskAddress(addr, prefixlen) ==
    [i \in DOMAIN addr |->
        (addr[i] \div Pow2(8 - KeptBits(i, prefixlen))) * Pow2(8 - KeptBits(i, prefixlen))]

BroadcastAddress(addr, prefixlen) ==
    [i \in DOMAIN addr |->
        MaskAddress(addr, prefixlen)[i] + Pow2(8 - KeptBits(i, prefixlen)) - 1]

\* the network object ip_network(..., strict=False) builds: host bits are dropped
Network(version, addr, prefixlen) ==
    [ok |-> TRUE,
     version |-> version,
     network_address |-> MaskAddress(addr, prefixlen),
     broadcast_address |-> BroadcastAddress(addr, prefixlen),
     prefixlen |-> prefixlen]

ValueError == [ok |-> FALSE]

V4(a, b, c, d) == <<a, b, c, d>>

V6(a) == <<a, 0, 0, 0, 0, 0, 0, 0, 0, 0, 0, 0, 0, 0, 0, 0>>

\* ipaddress.ip_network(s, strict=False) on the strings the model's inputs use
ip_network(s) ==
    CASE s = "0.0.0.0/0"   -> Network(4, V4(0, 0, 0, 0), 0)
      [] s = "10.0.0.0/8"  -> Network(4, V4(10, 0, 0, 0), 8)
      [] s = "10.0.0.0/16" -> Network(4, V4(10, 0, 0, 0), 16)
      [] s = "10.0.5.0/24" -> Network(4, V4(10, 0, 5, 0), 24)
      [] s = "10.0.5.7/24" -> Network(4, V4(10, 0, 5, 7), 24)
      [] s = "10.1.0.0/16" -> Network(4, V4(10, 1, 0, 0), 16)
      [] s = "::/0"        -> Network(6, V6(0), 0)
      [] s = "fd00::/8"    -> Network(6, V6(253), 8)
      [] s = ""            -> ValueError
      [] s = "pl-1"        -> ValueError
      [] s = "10.0.0.0/33" -> ValueError

\* a <= b on addresses of one version
AddrLeq(a, b) ==
    \/ a = b
    \/ \E i \in DOMAIN a : a[i] < b[i] /\ \A j \in 1..(i - 1) : a[j] = b[j]

\* a.subnet_of(b); raises TypeError (ok = FALSE) when the versions differ
subnet_of(a, b) ==
    IF a.version # b.version THEN [ok |-> FALSE, value |-> FALSE]
    ELSE [ok |-> TRUE,
          value |-> /\ AddrLeq(b.network_address, a.network_address)
                    /\ AddrLeq(a.broadcast_address, b.broadcast_address)]

\* a == b on networks
NetEq(a, b) ==
    /\ a.version = b.version
    /\ a.network_address = b.network_address
    /\ a.prefixlen = b.prefixlen

\* address in net (_BaseNetwork.__contains__), for an address of the given version
AddrIn(version, addr, net) ==
    /\ version = net.version
    /\ MaskAddress(addr, net.prefixlen) = net.network_address

\* a.overlaps(b)
overlaps(a, b) ==
    \/ AddrIn(a.version, a.network_address, b)
    \/ AddrIn(a.version, a.broadcast_address, b)
    \/ AddrIn(b.version, b.network_address, a)
    \/ AddrIn(b.version, b.broadcast_address, a)

----------------------------------------------------------------------------
(* NetworkData properties *)

\* NetworkData.is_hub_account
is_hub_account(gws) == Len(gws) > 0

\* is_spoke_account that does not look at the TGWs
IsSpokeWithAnyAttachment(gws, atts) == Len(atts) > 0

\* NetworkData.is_spoke_account
is_spoke_account(gws, atts) == Len(gws) = 0 /\ Len(atts) > 0

\* NetworkData.referenced_tgw_ids
referenced_tgw_ids(atts) == {atts[a].tgw_id : a \in {b \in DOMAIN atts : atts[b].tgw_id # ""}}

----------------------------------------------------------------------------
(* ConnectivityAnalyzer *)

Issue(type, severity, location, message) ==
    [type |-> type, severity |-> severity, location |-> location, message |-> message]

\* _cidr_matches without the default-route shortcut
CidrMatchesWithoutDefault(route_cidr, target_cidr) ==
    LET route_net == ip_network(route_cidr)
        target_net == ip_network(target_cidr)
    IN  IF route_net.ok /\ target_net.ok /\ subnet_of(target_net, route_net).ok
        THEN subnet_of(target_net, route_net).value \/ NetEq(route_net, target_net)
        ELSE route_cidr = target_cidr

cidr_matches(route_cidr, target_cidr) ==
    IF route_cidr = "0.0.0.0/0" THEN TRUE
    ELSE LET route_net == ip_network(route_cidr)
             target_net == ip_network(target_cidr)
         IN  IF route_net.ok /\ target_net.ok /\ subnet_of(target_net, route_net).ok
             THEN subnet_of(target_net, route_net).value \/ NetEq(route_net, target_net)
             ELSE route_cidr = target_cidr

\* can_reach that does not skip blackhole routes
CanReachThroughBlackholes(src, dst, rts) ==
    IF ~Truthy(src.associated_route_table_id) THEN FALSE
    ELSE IF ~DictHas(rts, src.associated_route_table_id) THEN FALSE
    ELSE LET rt == DictGet(rts, src.associated_route_table_id)
         IN  \E c \in DOMAIN dst.cidrs : \E r \in DOMAIN rt.routes :
                /\ rt.routes[r].attachment_id = dst.id
                /\ cidr_matches(rt.routes[r].destination_cidr, dst.cidrs[c])

\* can_reach that accepts a default route to dst before looking at dst's CIDRs
CanReachByDefaultRoute(src, dst, rts) ==
    IF ~Truthy(src.associated_route_table_id) THEN FALSE
    ELSE IF ~DictHas(rts, src.associated_route_table_id) THEN FALSE
    ELSE LET rt == DictGet(rts, src.associated_route_table_id)
         IN  \E r \in DOMAIN rt.routes :
                /\ rt.routes[r].state # "blackhole"
                /\ rt.routes[r].attachment_id = dst.id
                /\ \/ rt.routes[r].destination_cidr = "0.0.0.0/0"
                   \/ \E c \in DOMAIN dst.cidrs :
                         cidr_matches(rt.routes[r].destination_cidr, dst.cidrs[c])

can_reach(src, dst, rts) ==
    IF ~Truthy(src.associated_route_table_id) THEN FALSE
    ELSE IF ~DictHas(rts, src.associated_route_table_id) THEN FALSE
    ELSE LET rt == DictGet(rts, src.associated_route_table_id)
         IN  \E c \in DOMAIN dst.cidrs : \E r \in DOMAIN rt.routes :
                /\ rt.routes[r].state # "blackhole"
                /\ rt.routes[r].attachment_id = dst.id
                /\ cidr_matches(rt.routes[r].destination_cidr, dst.cidrs[c])

\* flattening of a sequence of sequences
RECURSIVE Concat(_)
Concat(ss) == IF ss = <<>> THEN <<>> ELSE Head(ss) \o Concat(Tail(ss))

\* _check_blackholes that reports a route table once, however many blackhole
\* routes it holds
CheckBlackholesOncePerTable(rts) ==
    Concat([t \in DOMAIN rts |->
        LET bh == SelectSeq(rts[t].routes, LAMBDA route : route.state = "blackhole")
        IN  IF bh = <<>> THEN <<>>
            ELSE <<Issue("blackhole", "warning", rts[t].name,
                         "Blackhole route to "
                           \o (IF Truthy(bh[1].prefix_list_id) THEN bh[1].prefix_list_id
                               ELSE bh[1].destination_cidr)
                           \o " in " \o rts[t].name)>>])

check_blackholes(rts) ==
    Concat([t \in DOMAIN rts |->
        LET bh == SelectSeq(rts[t].routes, LAMBDA route : route.state = "blackhole")
        IN  [k \in DOMAIN bh |->
                Issue("blackhole", "warning", rts[t].name,
                      "Blackhole route to "
                        \o (IF Truthy(bh[k].prefix_list_id) THEN bh[k].prefix_list_id
                            ELSE bh[k].destination_cidr)
                        \o " in " \o rts[t].name)]])

\* tgw_atts of _check_asymmetric_routing without the filter on the TGW id
TgwAttsUnfiltered(atts, tgw_id) == atts

\* tgw_atts of _check_asymmetric_routing: the attachments of one TGW, in dict order
TgwAtts(atts, tgw_id) == SelectSeq(atts, LAMBDA a : a.tgw_id = tgw_id)

\* the (src, dst) pairs for which _check_asymmetric_routing appends an issue, in
\* the order it appends them
\* the pair scan that reports src -> dst without testing the way back
AsymmetricPairsIgnoringReturn(gws, atts, rts) ==
    Concat([g \in DOMAIN gws |->
        LET tgw_atts == TgwAtts(atts, gws[g].id)
        IN  Concat([s \in DOMAIN tgw_atts |->
                LET hits == SelectSeq(tgw_atts, LAMBDA dst :
                                /\ tgw_atts[s].id # dst.id
                                /\ can_reach(tgw_atts[s], dst, rts))
                IN  [k \in DOMAIN hits |-> <<tgw_atts[s], hits[k]>>]])])

AsymmetricPairs(gws, atts, rts) ==
    Concat([g \in DOMAIN gws |->
        LET tgw_atts == TgwAtts(atts, gws[g].id)
        IN  Concat([s \in DOMAIN tgw_atts |->
                LET hits == SelectSeq(tgw_atts, LAMBDA dst :
                                /\ tgw_atts[s].id # dst.id
                                /\ can_reach(tgw_atts[s], dst, rts)
                                /\ ~can_reach(dst, tgw_atts[s], rts))
                IN  [k \in DOMAIN hits |-> <<tgw_atts[s], hits[k]>>]])])

check_asymmetric_routing(gws, atts, rts) ==
    LET pairs == AsymmetricPairs(gws, atts, rts)
    IN  [k \in DOMAIN pairs |->
            Issue("asymmetric", "warning",
                  pairs[k][1].name \o " → " \o pairs[k][2].name,
                  "Asymmetric routing: " \o pairs[k][1].name \o " can reach "
                    \o pairs[k][2].name \o " but not vice versa")]

\* whether the try block of _check_cidr_overlaps appends an issue for two CIDRs
CidrsOverlap(cidr1, cidr2) ==
    LET net1 == ip_network(cidr1)
        net2 == ip_network(cidr2)
    IN  net1.ok /\ net2.ok /\ overlaps(net1, net2)

\* the overlap scan over every ordered pair of VPCs, a VPC with itself included
OverlapHitsAllPairs(vs) ==
    Concat([i \in DOMAIN vs |->
        Concat([j \in DOMAIN vs |->
            Concat([c1 \in DOMAIN vs[i].cidrs |->
                LET vpc2 == vs[j]
                    hit == SelectSeq(vpc2.cidrs,
                              LAMBDA cidr2 : CidrsOverlap(vs[i].cidrs[c1], cidr2))
                IN  [k \in DOMAIN hit |->
                        [vpc1 |-> vs[i].id, cidr1 |-> vs[i].cidrs[c1],
                         vpc2 |-> vpc2.id, cidr2 |-> hit[k],
                         name1 |-> vs[i].name, name2 |-> vpc2.name]]])])])

\* the (vpc1, cidr1, vpc2, cidr2) tuples for which _check_cidr_overlaps appends an
\* issue, in the order it appends them
OverlapHits(vs) ==
    Concat([i \in DOMAIN vs |->
        Concat([j \in 1..(Len(vs) - i) |->
            Concat([c1 \in DOMAIN vs[i].cidrs |->
                LET vpc2 == vs[i + j]
                    hit == SelectSeq(vpc2.cidrs,
                              LAMBDA cidr2 : CidrsOverlap(vs[i].cidrs[c1], cidr2))
                IN  [k \in DOMAIN hit |->
                        [vpc1 |-> vs[i].id, cidr1 |-> vs[i].cidrs[c1],
                         vpc2 |-> vpc2.id, cidr2 |-> hit[k],
                         name1 |-> vs[i].name, name2 |-> vpc2.name]]])])])

check_cidr_overlaps(vs) ==
    LET hits == OverlapHits(vs)
    IN  [k \in DOMAIN hits |->
            Issue("overlap", "warning",
                  hits[k].name1 \o " / " \o hits[k].name2,
                  "CIDR overlap: " \o hits[k].name1 \o " (" \o hits[k].cidr1
                    \o ") overlaps with " \o hits[k].name2 \o " (" \o hits[k].cidr2
                    \o ")")]

\* has_tgw_route that accepts a TGW route of any VPC's route table
HasTgwRouteInAnyVpc(vpc, vrts) ==
    \E t \in DOMAIN vrts :
        \E r \in DOMAIN vrts[t].routes : vrts[t].routes[r].target_type = "tgw"

\* has_tgw_route of _check_missing_routes
HasTgwRoute(vpc, vrts) ==
    \E t \in DOMAIN vrts :
        /\ vrts[t].vpc_id = vpc.id
        /\ \E r \in DOMAIN vrts[t].routes : vrts[t].routes[r].target_type = "tgw"

check_missing_routes(vs, vrts) ==
    LET missing == SelectSeq(vs, LAMBDA vpc :
                       Truthy(vpc.tgw_attachment_id) /\ ~HasTgwRoute(vpc, vrts))
    IN  [k \in DOMAIN missing |->
            Issue("missing_route", "info", missing[k].name,
                  "VPC " \o missing[k].name
                    \o " is attached to TGW but has no TGW routes in any route table")]

check_peering_issues(ps) ==
    LET bad == SelectSeq(ps, LAMBDA pcx : pcx.status # "active")
    IN  [k \in DOMAIN bad |->
            Issue("peering", "warning", bad[k].name,
                  "VPC Peering " \o bad[k].name \o " is not active (status: "
                    \o bad[k].status \o ")")]

\* tunnel_status that counts a tunnel as up whatever the case of its status
TunnelStatusAnyCase(vpn) ==
    LET up_count == Len(SelectSeq(vpn.tunnels, LAMBDA t : t.status \in {"UP", "up"}))
        total == Len(vpn.tunnels)
    IN  IF up_count = total THEN "all_up"
        ELSE IF up_count > 0 THEN "partial"
        ELSE "down"

\* VPNConnection.tunnel_status
tunnel_status(vpn) ==
    LET up_count == Len(SelectSeq(vpn.tunnels, LAMBDA t : t.status = "UP"))
        total == Len(vpn.tunnels)
    IN  IF up_count = total THEN "all_up"
        ELSE IF up_count > 0 THEN "partial"
        ELSE "down"

\* _check_vpn_tunnels that warns per tunnel even when every tunnel is down
VpnIssuesPerTunnel(vpn) ==
    LET tunnels_down == SelectSeq(vpn.tunnels, LAMBDA t : t.status # "UP")
    IN  [k \in DOMAIN tunnels_down |->
            Issue("vpn_partial", "warning", vpn.name,
                  "Tunnel " \o tunnels_down[k].outside_ip \o " DOWN for " \o vpn.name
                    \o ": " \o (IF tunnels_down[k].status_message # ""
                                THEN tunnels_down[k].status_message
                                ELSE "No message"))]

\* the issues _check_vpn_tunnels appends for one VPN connection
VpnIssues(vpn) ==
    LET tunnels_down == SelectSeq(vpn.tunnels, LAMBDA t : t.status # "UP")
    IN  IF Len(tunnels_down) = Len(vpn.tunnels) /\ Len(vpn.tunnels) > 0
        THEN <<Issue("vpn_down", "error", vpn.name,
                     "All tunnels DOWN for VPN " \o vpn.name)>>
        ELSE [k \in DOMAIN tunnels_down |->
                Issue("vpn_partial", "warning", vpn.name,
                      "Tunnel " \o tunnels_down[k].outside_ip \o " DOWN for " \o vpn.name
                        \o ": " \o (IF tunnels_down[k].status_message # ""
                                    THEN tunnels_down[k].status_message
                                    ELSE "No message"))]

check_vpn_tunnels(vpns) == Concat([v \in DOMAIN vpns |-> VpnIssues(vpns[v])])

\* whether p.bgp_status.lower() raises AttributeError for a peer of the VIFs:
\* None has no lower()
BgpStatusRaises(vifs) ==
    \E v \in DOMAIN vifs : \E p \in DOMAIN vifs[v].bgp_peers :
        vifs[v].bgp_peers[p].bgp_status = None

\* str.lower() on the BGP status strings of the model
Lower(str) ==
    CASE str \in {"up", "UP", "Up"} -> "up"
      [] str \in {"down", "DOWN"}   -> "down"
      [] str = ""                   -> ""

\* the issue _check_dx_issues appends for one connection, if any
DxConnectionIssues(conn) ==
    IF conn.state = "down"
    THEN <<Issue("dx_down", "error", conn.name,
                 "Direct Connect connection " \o conn.name \o " is DOWN at "
                   \o conn.location)>>
    ELSE IF conn.state \notin {"available", "ordering", "requested"}
    THEN <<Issue("dx_degraded", "warning", conn.name,
                 "Direct Connect connection " \o conn.name \o " is in state: "
                   \o conn.state)>>
    ELSE <<>>

\* the VIF check with the BGP status compared as it is written, without lower()
DxVifIssuesCaseSensitive(vif) ==
    LET bgp_down == SelectSeq(vif.bgp_peers, LAMBDA p : p.bgp_status # "up")
    IN  (IF vif.state # "available"
         THEN <<Issue("vif_down", "error", vif.name,
                      "VIF " \o vif.name \o " is in state: " \o vif.state)>>
         ELSE <<>>)
        \o (IF Len(bgp_down) = Len(vif.bgp_peers) /\ Len(vif.bgp_peers) > 0
            THEN <<Issue("bgp_down", "error", vif.name,
                         "All BGP peers DOWN for VIF " \o vif.name)>>
            ELSE [k \in DOMAIN bgp_down |->
                    Issue("bgp_partial", "warning", vif.name,
                          "BGP peer ASN " \o ToString(bgp_down[k].asn) \o " ("
                            \o bgp_down[k].customer_address \o ") DOWN on " \o vif.name)])

\* the issues _check_dx_issues appends for one virtual interface
DxVifIssues(vif) ==
    LET bgp_down == SelectSeq(vif.bgp_peers, LAMBDA p : Lower(p.bgp_status) # "up")
    IN  (IF vif.state # "available"
         THEN <<Issue("vif_down", "error", vif.name,
                      "VIF " \o vif.name \o " is in state: " \o vif.state)>>
         ELSE <<>>)
        \o (IF Len(bgp_down) = Len(vif.bgp_peers) /\ Len(vif.bgp_peers) > 0
            THEN <<Issue("bgp_down", "error", vif.name,
                         "All BGP peers DOWN for VIF " \o vif.name)>>
            ELSE [k \in DOMAIN bgp_down |->
                    Issue("bgp_partial", "warning", vif.name,
                          "BGP peer ASN " \o ToString(bgp_down[k].asn) \o " ("
                            \o bgp_down[k].customer_address \o ") DOWN on " \o vif.name)])

check_dx_issues(conns, vifs) ==
    Concat([c \in DOMAIN conns |-> DxConnectionIssues(conns[c])])
      \o Concat([v \in DOMAIN vifs |-> DxVifIssues(vifs[v])])

\* find_issues() with the overlap check run before the peering check
FindIssuesOverlapBeforePeering ==
    check_blackholes(tgw_route_tables)
      \o check_asymmetric_routing(tgws, tgw_attachments, tgw_route_tables)
      \o check_cidr_overlaps(vpcs)
      \o check_peering_issues(peerings)
      \o check_missing_routes(vpcs, vpc_route_tables)
      \o check_vpn_tunnels(vpn_connections)
      \o check_dx_issues(dx_connections, dx_vifs)

\* the issues list of find_issues()
FindIssues ==
    check_blackholes(tgw_route_tables)
      \o check_asymmetric_routing(tgws, tgw_attachments, tgw_route_tables)
      \o check_peering_issues(peerings)
      \o check_cidr_overlaps(vpcs)
      \o check_missing_routes(vpcs, vpc_route_tables)
      \o check_vpn_tunnels(vpn_connections)
      \o check_dx_issues(dx_connections, dx_vifs)

\* whether _can_reach raises AttributeError: rt.routes is read only past the
\* tests that src has an associated route table id and that
\* tgw_route_tables.get() found the table
CanReachRaises(src, rts) ==
    /\ Truthy(src.associated_route_table_id)
    /\ DictHas(rts, src.associated_route_table_id)
    /\ ~DictHas(rts, src.associated_route_table_id)

\* whether an exception leaves the try statement of _check_cidr_overlaps for two
\* CIDRs: ip_network raises ValueError inside the try block, and the bare
\* except clause handles every exception
CidrsOverlapRaises(cidr1, cidr2) ==
    LET raised == ~ip_network(cidr1).ok \/ ~ip_network(cidr2).ok
        handled == TRUE
    IN  raised /\ ~handled

\* whether find_issues raises: _check_asymmetric_routing calls _can_reach on
\* the attachments of each TGW, _check_cidr_overlaps compares the CIDRs of each
\* pair of VPCs, _check_dx_issues calls lower() on the status of every BGP
\* peer; the other checks index no collection and parse no CIDR
FindIssuesRaises ==
    \/ BgpStatusRaises(dx_vifs)
    \/ \E g \in DOMAIN tgws : \E a \in DOMAIN tgw_attachments :
          /\ tgw_attachments[a].tgw_id = tgws[g].id
          /\ \E b \in DOMAIN tgw_attachments :
                /\ b # a
                /\ tgw_attachments[b].tgw_id = tgws[g].id
          /\ CanReachRaises(tgw_attachments[a], tgw_route_tables)
    \/ \E i \in DOMAIN vpcs : \E j \in DOMAIN vpcs :
          /\ i < j
          /\ \E c1 \in DOMAIN vpcs[i].cidrs : \E c2 \in DOMAIN vpcs[j].cidrs :
                CidrsOverlapRaises(vpcs[i].cidrs[c1], vpcs[j].cidrs[c2])

\* the statistics main() prints between load() and the report: the DX lines
\* call lower() on the status of every BGP peer; nothing is stored
show_stats ==
    /\ pc = "show_stats"
    /\ pc' = IF BgpStatusRaises(dx_vifs) THEN "failed" ELSE "generate"
    /\ UNCHANGED <<input, catalog, issues>>

\* HTMLReportGenerator.generate: the report's findings are those of a first
\* find_issues call on the catalog; the report itself only reads the catalog
generate ==
    /\ pc = "generate"
    /\ IF FindIssuesRaises
       THEN /\ pc' = "failed"
            /\ UNCHANGED issues
       ELSE /\ issues' = FindIssues
            /\ pc' = "find_issues"
    /\ UNCHANGED <<input, catalog>>

\* main()'s own find_issues call, after the report was written
find_issues ==
    /\ pc = "find_issues"
    /\ IF FindIssuesRaises
       THEN /\ pc' = "failed"
            /\ UNCHANGED issues
       ELSE /\ issues' = FindIssues
            /\ pc' = "done"
    /\ UNCHANGED <<input, catalog>>

----------------------------------------------------------------------------
(* main(): load(), the report, then find_issues() *)

EmptyInput ==
    [aws_account_id |-> "",
     TransitGateways |-> <<>>,
     TransitGatewayAttachments |-> <<>>,
     TransitGatewayRouteTables |-> <<>>,
     AssociationFiles |-> <<>>,
     PropagationFiles |-> <<>>,
     RouteFiles |-> <<>>,
     Vpcs |-> <<>>,
     Subnets |-> <<>>,
     RouteTables |-> <<>>,
     VpcPeeringConnections |-> <<>>,
     VpnConnections |-> <<>>,
     connections |-> <<>>,
     virtualInterfaces |-> <<>>,
     InternetGateways |-> <<>>,
     NatGateways |-> <<>>,
     CustomerGateways |-> <<>>,
     directConnectGateways |-> <<>>,
     PrefixLists |-> <<>>]

\* NetworkData() as AWSDataLoader.__init__ builds it
InitCatalog ==
    /\ pc = "load_metadata"
    /\ local_account_id = ""
    /\ tgws = <<>>
    /\ tgw_attachments = <<>>
    /\ tgw_route_tables = <<>>
    /\ vpcs = <<>>
    /\ subnets = <<>>
    /\ vpc_route_tables = <<>>
    /\ peerings = <<>>
    /\ vpn_connections = <<>>
    /\ dx_connections = <<>>
    /\ dx_vifs = <<>>
    /\ igws = <<>>
    /\ nat_gateways = <<>>
    /\ customer_gateways = <<>>
    /\ dx_gateways = <<>>
    /\ prefix_lists = <<>>
    /\ issues = <<>>

Next ==
    \/ load_metadata
    \/ load_tgws
    \/ load_tgw_attachments
    \/ load_tgw_route_tables
    \/ load_tgw_route_details
    \/ load_vpcs
    \/ load_subnets
    \/ load_vpc_route_tables
    \/ load_igws
    \/ load_nat_gateways
    \/ load_peerings
    \/ load_vpn_connections
    \/ load_customer_gateways
    \/ load_dx_connections
    \/ load_dx_gateways
    \/ load_dx_vifs
    \/ load_prefix_lists
    \/ correlate_data
    \/ extract_cross_account_cidrs
    \/ classify_subnets
    \/ show_stats
    \/ generate
    \/ find_issues

----------------------------------------------------------------------------
(* Input directories.  Each specification below runs main() on every input
   directory of one family. *)

RawAttachment(id, tgw_id, type, resource_id, resource_owner, tgw_owner) ==
    [TransitGatewayAttachmentId |-> id,
     TransitGatewayId |-> tgw_id,
     ResourceType |-> type,
     ResourceId |-> resource_id,
     ResourceOwnerId |-> resource_owner,
     TransitGatewayOwnerId |-> tgw_owner,
     Name |-> ""]

RawTgw(id) == [TransitGatewayId |-> id, OwnerId |-> "111"]

RawRouteTable(id, tgw_id) ==
    [TransitGatewayRouteTableId |-> id, TransitGatewayId |-> tgw_id, Name |-> ""]

\* account ids as the export can hold them; "" is a missing field
AccountIds == {"", "111", "222"}

MaxAttachments == 2

\* metadata.json and k <= MaxAttachments attachment records with any owner ids
AttachmentInputs ==
    {[EmptyInput EXCEPT
        !.aws_account_id = local,
        !.TransitGatewayAttachments =
            [i \in DOMAIN owners |-> RawAttachment("tgw-attach-" \o ToString(i), "tgw-1", "vpn",
                                          "vpn-" \o ToString(i), owners[i][1],
                                          owners[i][2])]] :
        <<local, owners>> \in
            UNION {AccountIds \X [1..k -> AccountIds \X AccountIds] :
                       k \in 1..MaxAttachments}}

InitAttachments == InitCatalog /\ input \in AttachmentInputs

SpecAttachments == InitAttachments /\ [][Next]_vars

\* the attachments are loaded
AttachmentsLoaded ==
    pc \notin {"load_metadata", "load_tgws", "load_tgw_attachments"}

\* TGW-owner id when known, else the local account id
EffectiveOwner(att) ==
    IF att.tgw_owner_id # "" THEN att.tgw_owner_id ELSE local_account_id

(* C1, as the claim states it: after loading, every attachment is flagged
   cross-account exactly when its resource-owner id differs from its effective
   owner id, for every combination of empty and non-empty ids. *)
C1_CrossAccountIffOwnersDiffer ==
    AttachmentsLoaded =>
        \A i \in DOMAIN tgw_attachments :
            tgw_attachments[i].is_cross_account
                <=> (tgw_attachments[i].resource_owner_id
                        # EffectiveOwner(tgw_attachments[i]))

(* C1, amended: after loading, every attachment is flagged cross-account exactly
   when its resource-owner id and its effective owner id are both non-empty and
   differ. *)
C1_CrossAccountIffKnownOwnersDiffer ==
    AttachmentsLoaded =>
        \A i \in DOMAIN tgw_attachments :
            tgw_attachments[i].is_cross_account
                <=> /\ tgw_attachments[i].resource_owner_id # ""
                    /\ EffectiveOwner(tgw_attachments[i]) # ""
                    /\ tgw_attachments[i].resource_owner_id
                          # EffectiveOwner(tgw_attachments[i])

\* a run that flagged one attachment through the local-account fallback and left
\* another, with no resource owner but a known TGW owner, unflagged
C1_Witness ==
    /\ pc = "done"
    /\ \E i, j \in DOMAIN tgw_attachments :
          /\ tgw_attachments[i].tgw_owner_id = ""
          /\ tgw_attachments[i].is_cross_account
          /\ tgw_attachments[j].resource_owner_id = ""
          /\ tgw_attachments[j].tgw_owner_id # ""
          /\ ~tgw_attachments[j].is_cross_account

----------------------------------------------------------------------------
(* Association files *)

AssocRecord(state, att_id) == [State |-> state, TransitGatewayAttachmentId |-> att_id]

\* records of an associations file: a settled and an unsettled state, attachments
\* of the catalog and one ("tgw-attach-9") that is not in it
AssocRecordChoices ==
    {AssocRecord("associated", "tgw-attach-1"),
     AssocRecord("associated", "tgw-attach-2"),
     AssocRecord("associated", "tgw-attach-9"),
     AssocRecord("disassociating", "tgw-attach-1")}

MaxAssocRecords == 2

SeqsUpTo(S, n) == UNION {[1..k -> S] : k \in 0..n}

\* two attachments, two route tables, and one associations file per route table
\* with up to MaxAssocRecords records, the files in either glob order
AssociationInputs ==
    {[EmptyInput EXCEPT
        !.TransitGateways = <<RawTgw("tgw-1")>>,
        !.TransitGatewayAttachments =
            <<RawAttachment("tgw-attach-1", "tgw-1", "vpn", "vpn-1", "111", "111"),
              RawAttachment("tgw-attach-2", "tgw-1", "vpn", "vpn-2", "111", "111")>>,
        !.TransitGatewayRouteTables =
            <<RawRouteTable("tgw-rtb-1", "tgw-1"), RawRouteTable("tgw-rtb-2", "tgw-1")>>,
        !.AssociationFiles =
            IF first = 1
            THEN <<[rt_id |-> "tgw-rtb-1", Associations |-> recs1],
                   [rt_id |-> "tgw-rtb-2", Associations |-> recs2]>>
            ELSE <<[rt_id |-> "tgw-rtb-2", Associations |-> recs2],
                   [rt_id |-> "tgw-rtb-1", Associations |-> recs1]>>] :
        <<first, recs1, recs2>> \in
            {1, 2} \X SeqsUpTo(AssocRecordChoices, MaxAssocRecords)
                   \X SeqsUpTo(AssocRecordChoices, MaxAssocRecords)}

InitAssociations == InitCatalog /\ input \in AssociationInputs

SpecAssociations == InitAssociations /\ [][Next]_vars

\* the associations, propagations and routes are loaded
RouteDetailsLoaded ==
    pc \notin {"load_metadata", "load_tgws", "load_tgw_attachments",
               "load_tgw_route_tables", "load_tgw_route_details"}

\* every attachment id the catalog mentions in an association
AssociationAttIds ==
    DictKeys(tgw_attachments)
      \cup UNION {{tgw_route_tables[t].associations[k] :
                      k \in DOMAIN tgw_route_tables[t].associations} :
                  t \in DOMAIN tgw_route_tables}

(* C2: after loading the association records, an attachment id is in a route
   table's associations exactly when that attachment's associated_route_table_id
   is the table's id, also for an attachment reported by two route tables and for
   one that is not in the attachment collection. *)
C2_AssociationsAgree ==
    RouteDetailsLoaded =>
        \A t \in DOMAIN tgw_route_tables : \A a \in AssociationAttIds :
            InList(a, tgw_route_tables[t].associations)
                <=> /\ DictHas(tgw_attachments, a)
                    /\ DictGet(tgw_attachments, a).associated_route_table_id
                          = tgw_route_tables[t].id

----------------------------------------------------------------------------
(* VPC route tables and subnets *)

RawVpc(id, cidr, more) ==
    [VpcId |-> id, Name |-> "", CidrBlock |-> cidr, CidrBlockAssociationSet |-> more]

RawSubnet(id, vpc_id) == [SubnetId |-> id, VpcId |-> vpc_id]

\* an internet gateway with one attachment; vpc_id is Absent for an attachment
\* without VpcId
RawIgw(id, state, vpc_id) ==
    [InternetGatewayId |-> id, Attachments |-> <<[State |-> state, VpcId |-> vpc_id]>>]

RawNatGateway(id, vpc_id) ==
    [NatGatewayId |-> id, Name |-> "", VpcId |-> vpc_id, SubnetId |-> "subnet-1",
     State |-> "available"]

RawCustomerGateway(id) ==
    [CustomerGatewayId |-> id, Name |-> "branch-router", IpAddress |-> "198.51.100.7",
     State |-> "available"]

RawDxGateway(id) ==
    [directConnectGatewayId |-> id, directConnectGatewayName |-> "",
     ownerAccount |-> "111", directConnectGatewayState |-> "available"]

RawPrefixList(id, name) == [PrefixListId |-> id, PrefixListName |-> name]

RawVpcRoute(dest, gateway, nat, tgw, eni, state) ==
    [DestinationCidrBlock |-> dest,
     DestinationPrefixListId |-> "",
     GatewayId |-> gateway,
     NatGatewayId |-> nat,
     TransitGatewayId |-> tgw,
     VpcPeeringConnectionId |-> "",
     NetworkInterfaceId |-> eni,
     State |-> state]

RawVpcRouteTable(id, vpc_id, assocs, routes) ==
    [RouteTableId |-> id, VpcId |-> vpc_id, Associations |-> assocs, Routes |-> routes]

VpcAssoc(main, subnet_id) == [Main |-> main, SubnetId |-> subnet_id]

\* routes of a VPC route table: both default destinations and an ordinary one,
\* through an internet gateway, a NAT gateway, a transit gateway, the local
\* target or a network interface
VpcRouteChoices ==
    {RawVpcRoute(dest, t[1], t[2], t[3], t[4], "active") :
        <<dest, t>> \in {"0.0.0.0/0", "::/0", "10.0.0.0/8"}
                          \X {<<"igw-1", "", "", "">>, <<"", "nat-1", "", "">>,
                              <<"", "", "tgw-1", "">>, <<"local", "", "", "">>,
                              <<"", "", "", "eni-1">>}}

\* how rtb-1 is associated: as the main table, explicitly with subnet-1,
\* explicitly with subnet-2 (whose VPC is not in the catalog), or not at all
VpcAssocChoices ==
    {<<VpcAssoc(TRUE, "")>>, <<VpcAssoc(FALSE, "subnet-1")>>,
     <<VpcAssoc(FALSE, "subnet-2")>>, <<>>}

MaxVpcRoutes == 2

\* vpc-1 with subnet-1, subnet-2 of an unknown VPC, route table rtb-1 with up to
\* MaxVpcRoutes routes, and possibly rtb-2, a main table with a default route
\* through an internet gateway
SubnetInputs ==
    {[EmptyInput EXCEPT
        !.Vpcs = <<RawVpc("vpc-1", "10.0.0.0/16", <<>>)>>,
        !.Subnets = <<RawSubnet("subnet-1", "vpc-1"), RawSubnet("subnet-2", "vpc-9")>>,
        !.InternetGateways = <<RawIgw("igw-1", "available", "vpc-1")>>,
        !.NatGateways = <<RawNatGateway("nat-1", "vpc-1")>>,
        !.RouteTables =
            <<RawVpcRouteTable("rtb-1", "vpc-1", assocs, routes)>>
              \o (IF second
                  THEN <<RawVpcRouteTable("rtb-2", "vpc-1", <<VpcAssoc(TRUE, "")>>,
                            <<RawVpcRoute("0.0.0.0/0", "igw-1", "", "", "", "active")>>)>>
                  ELSE <<>>)] :
        <<assocs, routes, second>> \in
            VpcAssocChoices \X SeqsUpTo(VpcRouteChoices, MaxVpcRoutes) \X BOOLEAN}

InitSubnets == InitCatalog /\ input \in SubnetInputs

SpecSubnets == InitSubnets /\ [][Next]_vars

\* the subnets are classified
SubnetsClassified == pc \in {"show_stats", "generate", "find_issues", "done"}

IsDefaultRoute(route) == route.destination \in {"0.0.0.0/0", "::/0"}

\* the route tables a subnet is governed by: the one its explicit route_table_id
\* names, or else the one its VPC's main_route_table_id names (at most one)
EffectiveTables(subnet) ==
    IF Truthy(subnet.route_table_id)
    THEN {t \in DOMAIN vpc_route_tables :
            vpc_route_tables[t].id = subnet.route_table_id}
    ELSE {t \in DOMAIN vpc_route_tables :
            \E v \in DOMAIN vpcs :
                /\ vpcs[v].id = subnet.vpc_id
                /\ Truthy(vpcs[v].main_route_table_id)
                /\ vpcs[v].main_route_table_id = vpc_route_tables[t].id}

\* the class the first default route of a table stands for
ClassOfFirstDefault(routes) ==
    IF \A r \in DOMAIN routes : ~IsDefaultRoute(routes[r]) THEN "isolated"
    ELSE LET first == CHOOSE r \in DOMAIN routes :
                        /\ IsDefaultRoute(routes[r])
                        /\ \A q \in 1..(r - 1) : ~IsDefaultRoute(routes[q])
         IN  CASE routes[first].target_type = "igw" -> "public"
               [] routes[first].target_type = "nat" -> "private"
               [] routes[first].target_type = "tgw" -> "tgw"
               [] OTHER -> "isolated"

(* C3: a subnet whose effective route table resolves is classified by the first
   route of that table, in table order, whose destination is 0.0.0.0/0 or ::/0:
   igw public, nat private, tgw tgw-attached, any other target isolated; later
   routes, further default routes included, never change the result. *)
C3_FirstDefaultRouteDecides ==
    SubnetsClassified =>
        \A i \in DOMAIN subnets : \A t \in EffectiveTables(subnets[i]) :
            subnets[i].subnet_type = ClassOfFirstDefault(vpc_route_tables[t].routes)

(* C4: the classifier uses the subnet's explicit route table, or else its VPC's
   main route table; with no table resolved, an empty table or a table without a
   default route the subnet is isolated; the table
   [(0.0.0.0/0, nat), (10.0.0.0/8, local)] makes its subnet private. *)
C4_EffectiveTableAndIsolation ==
    SubnetsClassified =>
        \A i \in DOMAIN subnets :
            /\ EffectiveTables(subnets[i]) = {} => subnets[i].subnet_type = "isolated"
            /\ \A t \in EffectiveTables(subnets[i]) :
                  LET routes == vpc_route_tables[t].routes
                  IN  /\ (\A r \in DOMAIN routes : ~IsDefaultRoute(routes[r]))
                          => subnets[i].subnet_type = "isolated"
                      /\ ( /\ Len(routes) = 2
                           /\ routes[1].destination = "0.0.0.0/0"
                           /\ routes[1].target_type = "nat"
                           /\ routes[2].destination = "10.0.0.0/8"
                           /\ routes[2].target_type = "local" )
                          => subnets[i].subnet_type = "private"

\* a run in which subnet-1 is governed by its explicit table [(0.0.0.0/0, nat),
\* (10.0.0.0/8, local)] although the main table of its VPC has a default route
\* through an internet gateway, and subnet-2 resolves no table
C4_Witness ==
    /\ pc = "done"
    /\ \E i, j \in DOMAIN subnets : \E t \in DOMAIN vpc_route_tables :
          /\ subnets[i].route_table_id = vpc_route_tables[t].id
          /\ Len(vpc_route_tables[t].routes) = 2
          /\ vpc_route_tables[t].routes[1].destination = "0.0.0.0/0"
          /\ vpc_route_tables[t].routes[1].target_type = "nat"
          /\ vpc_route_tables[t].routes[2].target_type = "local"
          /\ subnets[i].subnet_type = "private"
          /\ \E v \in DOMAIN vpcs :
                /\ vpcs[v].id = subnets[i].vpc_id
                /\ Truthy(vpcs[v].main_route_table_id)
                /\ vpcs[v].main_route_table_id # vpc_route_tables[t].id
          /\ EffectiveTables(subnets[j]) = {}
          /\ subnets[j].subnet_type = "isolated"

----------------------------------------------------------------------------
(* TGW reachability *)

RawTgwRoute(dest, prefix_list, state, type, att_ids) ==
    [DestinationCidrBlock |-> dest,
     PrefixListId |-> prefix_list,
     State |-> state,
     Type |-> type,
     TransitGatewayAttachments |-> att_ids]

VpcAttachment(id, tgw_id, vpc_id) == RawAttachment(id, tgw_id, "vpc", vpc_id, "111", "111")

\* routes of A's route table: a destination that covers the first CIDR of vpc-2
\* and one that covers vpc-1, attributed to A or to B, active or blackhole
ReachRouteChoices ==
    {RawTgwRoute(dest, "", state, "static", <<att>>) :
        <<dest, att, state>> \in {"10.0.0.0/16", "10.1.0.0/16"}
                                   \X {"tgw-attach-1", "tgw-attach-2"}
                                   \X {"active", "blackhole"}}

\* B's route table: empty, or one route that covers A's CIDR: back to A,
\* active or blackhole, or an active one that names no attachment
ReturnRouteChoices ==
    {<<>>,
     <<RawTgwRoute("10.0.0.0/8", "", "active", "static", <<"tgw-attach-1">>)>>,
     <<RawTgwRoute("10.0.0.0/8", "", "blackhole", "static", <<"tgw-attach-1">>)>>,
     <<RawTgwRoute("10.0.0.0/8", Absent, "active", "static", <<>>)>>}

\* which association files exist: A with tgw-rtb-1 and B with tgw-rtb-2, only one
\* of the two, or both attachments with tgw-rtb-1
ReachAssocChoices ==
    {<<[rt_id |-> "tgw-rtb-1",
        Associations |-> <<AssocRecord("associated", "tgw-attach-1")>>],
       [rt_id |-> "tgw-rtb-2",
        Associations |-> <<AssocRecord("associated", "tgw-attach-2")>>]>>,
     <<[rt_id |-> "tgw-rtb-1",
        Associations |-> <<AssocRecord("associated", "tgw-attach-1")>>]>>,
     <<[rt_id |-> "tgw-rtb-2",
        Associations |-> <<AssocRecord("associated", "tgw-attach-2")>>]>>,
     <<[rt_id |-> "tgw-rtb-1",
        Associations |-> <<AssocRecord("associated", "tgw-attach-1"),
                           AssocRecord("associated", "tgw-attach-2")>>]>>}

\* the TGWs the account owns and the TGW of attachment B: a hub that owns both
\* TGWs with B on the TGW of A or on the other one, and a spoke that owns none
ReachTgwChoices ==
    {<<<<RawTgw("tgw-1"), RawTgw("tgw-2")>>, "tgw-1">>,
     <<<<RawTgw("tgw-1"), RawTgw("tgw-2")>>, "tgw-2">>,
     <<<<>>, "tgw-1">>}

MaxRoutes == 2

\* attachments A (vpc-1) and B (vpc-2, with two CIDRs), route tables tgw-rtb-1
\* with up to MaxRoutes routes and tgw-rtb-2
ReachInputs ==
    {[EmptyInput EXCEPT
        !.TransitGateways = gw[1],
        !.TransitGatewayAttachments =
            <<VpcAttachment("tgw-attach-1", "tgw-1", "vpc-1"),
              VpcAttachment("tgw-attach-2", gw[2], "vpc-2")>>,
        !.TransitGatewayRouteTables =
            <<RawRouteTable("tgw-rtb-1", "tgw-1"), RawRouteTable("tgw-rtb-2", "tgw-1")>>,
        !.AssociationFiles = assoc,
        !.RouteFiles = <<[rt_id |-> "tgw-rtb-1", Routes |-> routes],
                         [rt_id |-> "tgw-rtb-2", Routes |-> back]>>,
        !.Vpcs = <<RawVpc("vpc-1", "10.1.0.0/16", <<>>),
                   RawVpc("vpc-2", "10.0.5.0/24", <<"fd00::/8">>)>>] :
        <<gw, assoc, routes, back>> \in
            ReachTgwChoices \X ReachAssocChoices
                \X SeqsUpTo(ReachRouteChoices, MaxRoutes) \X ReturnRouteChoices}

InitReach == InitCatalog /\ input \in ReachInputs

SpecReach == InitReach /\ [][Next]_vars

\* the strings of the model that name a network
Parses(s) == ip_network(s).ok

\* network t is network r or a part of it: r's prefix is no longer than t's and
\* t's address starts with r's prefix
SubNetworkOrSame(t, r) ==
    /\ t.version = r.version
    /\ r.prefixlen <= t.prefixlen
    /\ MaskAddress(t.network_address, r.prefixlen) = r.network_address

\* the CIDR match rule as C8 states it
ClaimMatch(r, t) ==
    \/ r = "0.0.0.0/0"
    \/ /\ Parses(r) /\ Parses(t)
       /\ SubNetworkOrSame(ip_network(t), ip_network(r))
    \/ /\ \/ ~Parses(r)
          \/ ~Parses(t)
          \/ ip_network(r).version # ip_network(t).version
       /\ r = t

\* the routes of the route table attachment a is associated with
AssociatedRoutes(a) ==
    UNION {{tgw_route_tables[t].routes[r] : r \in DOMAIN tgw_route_tables[t].routes} :
           t \in {u \in DOMAIN tgw_route_tables :
                    tgw_route_tables[u].id = a.associated_route_table_id}}

\* can_reach as C7 states it
ClaimReach(a, b) ==
    /\ Truthy(a.associated_route_table_id)
    /\ \E route \in AssociatedRoutes(a) :
          /\ route.state # "blackhole"
          /\ route.attachment_id = b.id
          /\ \E c \in DOMAIN b.cidrs : ClaimMatch(route.destination_cidr, b.cidrs[c])

\* the number of issues _check_asymmetric_routing appends for the pair (a, b)
AsymCount(a, b) ==
    LET pairs == AsymmetricPairs(tgws, tgw_attachments, tgw_route_tables)
    IN  Cardinality({k \in DOMAIN pairs : pairs[k][1].id = a.id /\ pairs[k][2].id = b.id})

\* the asymmetric issues of the findings list are those of the pairs, in order
AsymIssuesReported ==
    SelectSeq(issues, LAMBDA i : i.type = "asymmetric")
        = check_asymmetric_routing(tgws, tgw_attachments, tgw_route_tables)

(* C5: for attachments A and B of one TGW of the catalog, when A's associated
   route table has a non-blackhole route attributed to B whose destination
   covers one of B's CIDRs and B's associated table has no route attributed to
   A, find_issues reports exactly one asymmetric finding for (A, B) and none for
   (B, A). *)
C5_OneDirectionReported ==
    pc = "done" =>
        /\ AsymIssuesReported
        /\ \A i, j \in DOMAIN tgw_attachments :
              LET A == tgw_attachments[i]
                  B == tgw_attachments[j]
              IN  ( /\ A.id # B.id
                    /\ A.tgw_id = B.tgw_id
                    /\ A.tgw_id \in DictKeys(tgws)
                    /\ \E route \in AssociatedRoutes(A) :
                          /\ route.state # "blackhole"
                          /\ route.attachment_id = B.id
                          /\ \E c \in DOMAIN B.cidrs :
                                /\ Parses(route.destination_cidr) /\ Parses(B.cidrs[c])
                                /\ SubNetworkOrSame(ip_network(B.cidrs[c]),
                                                    ip_network(route.destination_cidr))
                    /\ \A route \in AssociatedRoutes(B) : route.attachment_id # A.id )
                  => AsymCount(A, B) = 1 /\ AsymCount(B, A) = 0

\* a run that reported A -> B: B has a route table of its own, with no route to A
C5_Witness ==
    /\ pc = "done"
    /\ \E i, j \in DOMAIN tgw_attachments :
          /\ Truthy(tgw_attachments[i].associated_route_table_id)
          /\ Truthy(tgw_attachments[j].associated_route_table_id)
          /\ tgw_attachments[j].associated_route_table_id
                # tgw_attachments[i].associated_route_table_id
          /\ \A route \in AssociatedRoutes(tgw_attachments[j]) :
                route.attachment_id # tgw_attachments[i].id
          /\ AsymCount(tgw_attachments[i], tgw_attachments[j]) = 1
          /\ AsymCount(tgw_attachments[j], tgw_attachments[i]) = 0
          /\ Len(SelectSeq(issues, LAMBDA x : x.type = "asymmetric")) = 1

(* C6: for every ordered pair of distinct attachments
   with the same tgw_id an asymmetric warning is emitted exactly when
   can_reach(src, dst) holds and can_reach(dst, src) does not, whether or not the
   TransitGateway with that id is in the catalog; pairs on different TGWs get
   none. *)
C6_AsymmetricIffOneWay ==
    pc = "done" =>
        /\ AsymIssuesReported
        /\ \A i, j \in DOMAIN tgw_attachments :
              LET src == tgw_attachments[i]
                  dst == tgw_attachments[j]
              IN  i # j =>
                    AsymCount(src, dst) =
                        IF /\ src.tgw_id = dst.tgw_id
                           /\ can_reach(src, dst, tgw_route_tables)
                           /\ ~can_reach(dst, src, tgw_route_tables)
                        THEN 1 ELSE 0

(* C7: can_reach(a, b) is false when a has no associated route table; otherwise
   it holds exactly when a's associated table has a non-blackhole route with
   attachment_id = b.id whose destination CIDR matches one of b's CIDRs; other
   tables and routes attributed to other attachments do not matter. *)
C7_CanReachRule ==
    RouteDetailsLoaded =>
        \A i, j \in DOMAIN tgw_attachments :
            /\ ~Truthy(tgw_attachments[i].associated_route_table_id)
                  => ~can_reach(tgw_attachments[i], tgw_attachments[j], tgw_route_tables)
            /\ can_reach(tgw_attachments[i], tgw_attachments[j], tgw_route_tables)
                  <=> ClaimReach(tgw_attachments[i], tgw_attachments[j])

\* a loaded catalog where A reaches B, B's only route back to A is a blackhole,
\* and A's table also holds a route attributed to A itself
C7_Witness ==
    /\ pc = "done"
    /\ \E i, j \in DOMAIN tgw_attachments :
          /\ i # j
          /\ can_reach(tgw_attachments[i], tgw_attachments[j], tgw_route_tables)
          /\ \E route \in AssociatedRoutes(tgw_attachments[i]) :
                route.attachment_id = tgw_attachments[i].id
          /\ \E route \in AssociatedRoutes(tgw_attachments[j]) :
                route.attachment_id = tgw_attachments[i].id /\ route.state = "blackhole"
          /\ ~can_reach(tgw_attachments[j], tgw_attachments[i], tgw_route_tables)

----------------------------------------------------------------------------
(* The CIDR match *)

\* the strings ip_network is tabulated for: networks of both families, one with
\* host bits set, and strings that do not parse
CidrStrings ==
    {"0.0.0.0/0", "10.0.0.0/8", "10.0.0.0/16", "10.0.5.0/24", "10.0.5.7/24",
     "10.1.0.0/16", "::/0", "fd00::/8", "", "pl-1", "10.0.0.0/33"}

\* attachment A with route table tgw-rtb-1 holding one active route to
\* attachment B with destination r; B is the attachment of vpc-2, whose CIDR is t
CidrMatchInputs ==
    {[EmptyInput EXCEPT
        !.TransitGateways = <<RawTgw("tgw-1")>>,
        !.TransitGatewayAttachments =
            <<VpcAttachment("tgw-attach-1", "tgw-1", "vpc-1"),
              VpcAttachment("tgw-attach-2", "tgw-1", "vpc-2")>>,
        !.TransitGatewayRouteTables = <<RawRouteTable("tgw-rtb-1", "tgw-1")>>,
        !.AssociationFiles =
            <<[rt_id |-> "tgw-rtb-1",
               Associations |-> <<AssocRecord("associated", "tgw-attach-1")>>]>>,
        !.RouteFiles =
            <<[rt_id |-> "tgw-rtb-1",
               Routes |-> <<RawTgwRoute(r, "", "active", "static", <<"tgw-attach-2">>)>>]>>,
        !.Vpcs = <<RawVpc("vpc-2", t, <<>>)>>] :
        <<r, t>> \in CidrStrings \X CidrStrings}

InitCidrMatch == InitCatalog /\ input \in CidrMatchInputs

SpecCidrMatch == InitCidrMatch /\ [][Next]_vars

(* C8: _cidr_matches(r, t) is true exactly when r is the string 0.0.0.0/0, or
   both parse and t's network is a sub-network of or identical to r's network,
   or one fails to parse or the families differ and r equals t as strings; an
   empty route destination matches only the empty target.  The asymmetric
   finding for a route with destination r to an attachment with CIDR t follows
   the same rule. *)
C8_CidrMatchRule ==
    /\ \A r, t \in CidrStrings : cidr_matches(r, t) <=> ClaimMatch(r, t)
    /\ \A t \in CidrStrings : cidr_matches("", t) <=> t = ""
    /\ pc = "done" =>
          \A i, j \in DOMAIN tgw_attachments :
              ( /\ i # j
                /\ tgw_attachments[i].tgw_id = tgw_attachments[j].tgw_id
                /\ tgw_attachments[i].tgw_id \in DictKeys(tgws)
                /\ ~ClaimReach(tgw_attachments[j], tgw_attachments[i]) )
              => ( AsymCount(tgw_attachments[i], tgw_attachments[j]) = 1
                     <=> ClaimReach(tgw_attachments[i], tgw_attachments[j]) )

\* a run whose route has host bits set ("10.0.5.7/24") and still matches the
\* CIDR of B, reported as an asymmetric finding
C8_Witness ==
    /\ pc = "done"
    /\ \E t \in DOMAIN tgw_route_tables : \E r \in DOMAIN tgw_route_tables[t].routes :
          /\ tgw_route_tables[t].routes[r].destination_cidr = "10.0.5.7/24"
          /\ tgw_route_tables[t].routes[r].attachment_id = "tgw-attach-2"
    /\ \E a \in DOMAIN tgw_attachments :
          tgw_attachments[a].id = "tgw-attach-2" /\ tgw_attachments[a].cidrs = <<"10.0.5.0/24">>
    /\ \E k \in DOMAIN issues : issues[k].type = "asymmetric"

----------------------------------------------------------------------------
(* VPC CIDR overlap *)

MaxVpcs == 3

VpcIds == {"vpc-" \o ToString(i) : i \in 1..MaxVpcs}

\* CidrBlock and CidrBlockAssociationSet of a VPC: one network; a network and
\* the same network written with host bits; networks of two families; a string
\* that does not parse and a network that covers every 10.x network
VpcCidrChoices ==
    {<<"10.0.0.0/16", <<>>>>,
     <<"10.0.5.0/24", <<"10.0.5.7/24">>>>,
     <<"10.1.0.0/16", <<"fd00::/8">>>>,
     <<"pl-1", <<"10.0.0.0/8">>>>}

\* up to MaxVpcs VPCs with distinct ids, stored in any order
OverlapInputs ==
    {[EmptyInput EXCEPT
        !.Vpcs = [i \in DOMAIN ids |-> RawVpc(ids[i], cs[i][1], cs[i][2])]] :
        <<ids, cs>> \in
            {p \in SeqsUpTo(VpcIds, MaxVpcs) \X SeqsUpTo(VpcCidrChoices, MaxVpcs) :
                /\ Len(p[1]) = Len(p[2])
                /\ \A i, j \in DOMAIN p[1] : i # j => p[1][i] # p[1][j]}}

InitOverlap == InitCatalog /\ input \in OverlapInputs

SpecOverlap == InitOverlap /\ [][Next]_vars

\* two CIDRs overlap: both name a network and one network is part of the other
ClaimOverlap(cidr1, cidr2) ==
    /\ Parses(cidr1) /\ Parses(cidr2)
    /\ \/ SubNetworkOrSame(ip_network(cidr1), ip_network(cidr2))
       \/ SubNetworkOrSame(ip_network(cidr2), ip_network(cidr1))

(* C9: the overlap check compares each unordered pair of distinct VPCs once and
   never a VPC with itself: the number of overlap findings naming V1 and V2
   equals the number of (cidr1 in V1, cidr2 in V2) pairs whose networks overlap,
   whatever the order in which the VPCs are stored; overlapping CIDRs inside one
   VPC produce no finding. *)
C9_OverlapPerUnorderedPair ==
    pc = "done" =>
        LET hits == OverlapHits(vpcs)
        IN  /\ SelectSeq(issues, LAMBDA x : x.type = "overlap") = check_cidr_overlaps(vpcs)
            /\ \A k \in DOMAIN hits : hits[k].vpc1 # hits[k].vpc2
            /\ \A i, j \in DOMAIN vpcs :
                  i # j =>
                    Cardinality({k \in DOMAIN hits :
                                    {hits[k].vpc1, hits[k].vpc2} = {vpcs[i].id, vpcs[j].id}})
                      = Cardinality({c \in (DOMAIN vpcs[i].cidrs) \X (DOMAIN vpcs[j].cidrs) :
                                        ClaimOverlap(vpcs[i].cidrs[c[1]], vpcs[j].cidrs[c[2]])})

\* three VPCs stored out of id order; one holds two CIDRs of the same network,
\* and both overlap the CIDR of another VPC: two findings for that pair
C9_Witness ==
    /\ pc = "done"
    /\ Len(vpcs) = 3
    /\ vpcs[1].id = "vpc-3"
    /\ \E i, j \in DOMAIN vpcs :
          /\ i < j
          /\ vpcs[j].cidrs = <<"10.0.5.0/24", "10.0.5.7/24">>
          /\ vpcs[i].cidrs = <<"10.0.0.0/16">>
          /\ Cardinality({k \in DOMAIN issues : issues[k].type = "overlap"}) = 2

----------------------------------------------------------------------------
(* Cross-account CIDR recovery *)

\* routes of tgw-rtb-1: propagated or static, attributed to the attachment of
\* the local VPC or to the attachment of a VPC of another account
RecoveryRouteChoices ==
    {RawTgwRoute(dest, "", "active", type, <<att>>) :
        <<dest, att, type>> \in {"10.1.0.0/16", "10.0.5.0/24"}
                                  \X {"tgw-attach-1", "tgw-attach-2"}
                                  \X {"propagated", "static"}}

\* tgw-attach-1 is the attachment of vpc-1, which is in the catalog with or
\* without a CidrBlock; tgw-attach-2 is the attachment of vpc-9, which is not
RecoveryInputs ==
    {[EmptyInput EXCEPT
        !.TransitGateways = <<RawTgw("tgw-1")>>,
        !.TransitGatewayAttachments =
            <<VpcAttachment("tgw-attach-1", "tgw-1", "vpc-1"),
              VpcAttachment("tgw-attach-2", "tgw-1", "vpc-9")>>,
        !.TransitGatewayRouteTables = <<RawRouteTable("tgw-rtb-1", "tgw-1")>>,
        !.RouteFiles = <<[rt_id |-> "tgw-rtb-1", Routes |-> routes]>>,
        !.Vpcs = <<RawVpc("vpc-1", cidr, <<>>)>>] :
        <<cidr, routes>> \in {"10.0.0.0/16", ""} \X SeqsUpTo(RecoveryRouteChoices, MaxRoutes)}

InitRecovery == InitCatalog /\ input \in RecoveryInputs

SpecRecovery == InitRecovery /\ [][Next]_vars

\* _correlate_data has run
VpcsLinked ==
    pc \in {"extract_cross_account_cidrs", "classify_subnets", "show_stats",
            "generate", "find_issues", "done"}

(* C10: recovery never changes the CIDR list of an attachment that received
   CIDRs from VPC linking: from the linking step on, every VPC-type attachment
   whose resource id is a VPC of the catalog has that VPC's CIDR list, whatever
   propagated routes name the attachment. *)
C10_LinkedCidrsKept ==
    VpcsLinked =>
        \A a \in DOMAIN tgw_attachments :
            (tgw_attachments[a].type = "vpc" /\ DictHas(vpcs, tgw_attachments[a].resource_id))
                => tgw_attachments[a].cidrs = DictGet(vpcs, tgw_attachments[a].resource_id).cidrs

\* after the load: propagated routes name the linked attachment with another
\* CIDR, and the attachment of the unknown VPC got its CIDRs from such routes
C10_Witness ==
    /\ pc = "done"
    /\ \E a, b \in DOMAIN tgw_attachments :
          /\ DictHas(vpcs, tgw_attachments[a].resource_id)
          /\ AttCidrs(tgw_route_tables, tgw_attachments[a].id) # {}
          /\ \A c \in AttCidrs(tgw_route_tables, tgw_attachments[a].id) :
                ~InList(c, tgw_attachments[a].cidrs)
          /\ tgw_attachments[a].cidrs = DictGet(vpcs, tgw_attachments[a].resource_id).cidrs
          /\ ~DictHas(vpcs, tgw_attachments[b].resource_id)
          /\ tgw_attachments[b].cidrs # <<>>

----------------------------------------------------------------------------
(* The candidate CIDRs of the recovery step *)

\* routes of tgw-rtb-1: propagated routes to tgw-attach-1 whose destinations sort
\* against their numeric order, a static route and a prefix-list route to it,
\* and a propagated route to tgw-attach-2
CandidateRouteChoices ==
    {RawTgwRoute("10.0.0.0/8", "", "active", "propagated", <<"tgw-attach-1">>),
     RawTgwRoute("10.0.0.0/16", "", "blackhole", "propagated", <<"tgw-attach-1">>),
     RawTgwRoute("10.1.0.0/16", "", "active", "static", <<"tgw-attach-1">>),
     RawTgwRoute("", "pl-1", "active", "propagated", <<"tgw-attach-1">>),
     RawTgwRoute("10.0.5.0/24", "", "active", "propagated", <<"tgw-attach-2">>)}

\* routes of tgw-rtb-2: none, a CIDR tgw-rtb-1 may hold as well, or another one
OtherTableRouteChoices ==
    {<<>>,
     <<RawTgwRoute("10.0.0.0/16", "", "active", "propagated", <<"tgw-attach-1">>)>>,
     <<RawTgwRoute("10.0.5.0/24", "", "active", "propagated", <<"tgw-attach-1">>)>>}

\* tgw-attach-1 is a VPC attachment of an unknown VPC, a VPN attachment or a
\* peering attachment; tgw-attach-2 is the attachment of the local vpc-1
CandidateInputs ==
    {[EmptyInput EXCEPT
        !.TransitGateways = <<RawTgw("tgw-1")>>,
        !.TransitGatewayAttachments =
            <<RawAttachment("tgw-attach-1", "tgw-1", type, "res-9", "222", "111"),
              VpcAttachment("tgw-attach-2", "tgw-1", "vpc-1")>>,
        !.TransitGatewayRouteTables =
            <<RawRouteTable("tgw-rtb-1", "tgw-1"), RawRouteTable("tgw-rtb-2", "tgw-1")>>,
        !.RouteFiles = <<[rt_id |-> "tgw-rtb-1", Routes |-> routes],
                         [rt_id |-> "tgw-rtb-2", Routes |-> other]>>,
        !.Vpcs = <<RawVpc("vpc-1", "10.1.0.0/16", <<>>)>>] :
        <<type, routes, other>> \in
            {"vpc", "vpn", "peering"} \X SeqsUpTo(CandidateRouteChoices, MaxRoutes)
                \X OtherTableRouteChoices}

InitCandidates == InitCatalog /\ input \in CandidateInputs

SpecCandidates == InitCandidates /\ [][Next]_vars

\* every route of every TGW route table
AllTgwRoutes ==
    UNION {{tgw_route_tables[t].routes[r] : r \in DOMAIN tgw_route_tables[t].routes} :
           t \in DOMAIN tgw_route_tables}

\* the candidate set of C11 for an attachment id
ClaimCandidates(att_id) ==
    {route.destination_cidr :
        route \in {q \in AllTgwRoutes : /\ q.route_type = "propagated"
                                         /\ ~Truthy(q.prefix_list_id)
                                         /\ q.destination_cidr # ""
                                         /\ q.attachment_id = att_id}}

\* a list of str in strictly ascending order: sorted, without duplicates
StrictlyAscending(list) ==
    \A i, j \in DOMAIN list : i < j => StrLess(list[i], list[j])

(* C11: the recovery step gives every VPC- or VPN-type attachment that has no
   CIDRs after VPC linking the sorted, duplicate-free list of the destination
   CIDRs of the propagated routes, of every TGW route table, that have a
   destination CIDR rather than a prefix list and name the attachment; static
   and prefix-list routes contribute nothing, and attachments of other types
   keep an empty list. *)
C11_RecoveredCidrs ==
    [][pc = "extract_cross_account_cidrs" =>
          \A a \in DOMAIN tgw_attachments :
              LET before == tgw_attachments[a]
                  after == tgw_attachments'[a]
              IN  /\ (before.type \in {"vpc", "vpn"} /\ before.cidrs = <<>>)
                        => /\ {after.cidrs[i] : i \in DOMAIN after.cidrs}
                                 = ClaimCandidates(before.id)
                           /\ StrictlyAscending(after.cidrs)
                  /\ before.type \notin {"vpc", "vpn"} => after.cidrs = <<>>]_vars

\* after the load: a VPN attachment recovered "10.0.0.0/16" before "10.0.0.0/8",
\* from two route tables, while a static route names it with a third CIDR
C11_Witness ==
    /\ pc = "done"
    /\ \E a \in DOMAIN tgw_attachments :
          /\ tgw_attachments[a].type = "vpn"
          /\ tgw_attachments[a].cidrs = <<"10.0.0.0/16", "10.0.0.0/8">>
          /\ \E q \in AllTgwRoutes :
                /\ q.route_type = "static"
                /\ q.attachment_id = tgw_attachments[a].id
          /\ \E t \in DOMAIN tgw_route_tables :
                /\ tgw_route_tables[t].id = "tgw-rtb-2"
                /\ tgw_route_tables[t].routes # <<>>

----------------------------------------------------------------------------
(* VPN tunnels *)

RawTunnel(ip, status, message) ==
    [OutsideIpAddress |-> ip, Status |-> status, StatusMessage |-> message]

RawVpn(id, name, telemetry) ==
    [VpnConnectionId |-> id, Name |-> name, State |-> "available",
     TransitGatewayId |-> "tgw-1", VgwTelemetry |-> telemetry]

\* VgwTelemetry records: an UP tunnel, DOWN tunnels with and without a status
\* message, a record without Status and a record whose Status is empty
TunnelChoices ==
    {RawTunnel("1.1.1.1", "UP", ""),
     RawTunnel("2.2.2.2", "DOWN", "IPSEC IS DOWN"),
     RawTunnel("3.3.3.3", "DOWN", ""),
     RawTunnel("4.4.4.4", Absent, ""),
     RawTunnel("5.5.5.5", "", "NO STATUS")}

MaxTunnels == 2

\* two VPN connections, one of them with a Name tag, each with up to MaxTunnels
\* tunnels
VpnInputs ==
    {[EmptyInput EXCEPT
        !.VpnConnections = <<RawVpn("vpn-1", "", t1), RawVpn("vpn-2", "branch", t2)>>] :
        <<t1, t2>> \in SeqsUpTo(TunnelChoices, MaxTunnels)
                         \X SeqsUpTo(TunnelChoices, MaxTunnels)}

InitVpn == InitCatalog /\ input \in VpnInputs

SpecVpn == InitVpn /\ [][Next]_vars

\* the findings of the VPN check located at one VPN connection
VpnFindings(vpn) ==
    SelectSeq(issues, LAMBDA i : /\ i.type \in {"vpn_down", "vpn_partial"}
                                 /\ i.location = vpn.name)

UpTunnels(vpn) == {t \in DOMAIN vpn.tunnels : vpn.tunnels[t].status = "UP"}

\* the message C12 expects for a tunnel that is not UP
ClaimTunnelMessage(vpn, t) ==
    "Tunnel " \o vpn.tunnels[t].outside_ip \o " DOWN for " \o vpn.name \o ": "
      \o (IF vpn.tunnels[t].status_message = "" THEN "No message"
          ELSE vpn.tunnels[t].status_message)

(* C12: for each VPN connection with at least one tunnel: every tunnel UP gives
   tunnel_status all_up and no finding; some but not all UP gives partial and
   exactly one warning per non-UP tunnel, naming its outside IP with the status
   message or 'No message', and no error; no tunnel UP gives down and exactly
   one error and no per-tunnel warning. *)
C12_TunnelAggregation ==
    pc = "done" =>
        \A v \in DOMAIN vpn_connections :
            LET vpn == vpn_connections[v]
                total == Len(vpn.tunnels)
                up == Cardinality(UpTunnels(vpn))
                found == VpnFindings(vpn)
            IN  total > 0 =>
                  /\ up = total =>
                        tunnel_status(vpn) = "all_up" /\ found = <<>>
                  /\ (0 < up /\ up < total) =>
                        /\ tunnel_status(vpn) = "partial"
                        /\ Len(found) = total - up
                        /\ \A k \in DOMAIN found :
                              found[k].type = "vpn_partial" /\ found[k].severity = "warning"
                        /\ \A t \in DOMAIN vpn.tunnels \ UpTunnels(vpn) :
                              \E k \in DOMAIN found :
                                  found[k].message = ClaimTunnelMessage(vpn, t)
                  /\ up = 0 =>
                        /\ tunnel_status(vpn) = "down"
                        /\ Len(found) = 1
                        /\ found[1].type = "vpn_down" /\ found[1].severity = "error"

\* a run with one VPN partly up, its down tunnel without a status message, and
\* the other VPN with two tunnels, both down
C12_Witness ==
    /\ pc = "done"
    /\ \E v, w \in DOMAIN vpn_connections :
          /\ tunnel_status(vpn_connections[v]) = "partial"
          /\ \E t \in DOMAIN vpn_connections[v].tunnels :
                /\ vpn_connections[v].tunnels[t].status = "DOWN"
                /\ vpn_connections[v].tunnels[t].status_message = ""
          /\ tunnel_status(vpn_connections[w]) = "down"
          /\ Len(vpn_connections[w].tunnels) = 2
    /\ Len(issues) = 2
    /\ {issues[k].severity : k \in DOMAIN issues} = {"warning", "error"}

----------------------------------------------------------------------------
(* Blackhole routes *)

\* routes of tgw-rtb-1: active and blackhole, static and propagated, and a
\* blackhole prefix-list route
BlackholeRouteChoices ==
    {RawTgwRoute("10.0.0.0/16", "", "active", "static", <<"tgw-attach-1">>),
     RawTgwRoute("10.0.0.0/16", "", "blackhole", "static", <<>>),
     RawTgwRoute("10.1.0.0/16", "", "active", "propagated", <<"tgw-attach-1">>),
     RawTgwRoute("10.1.0.0/16", "", "blackhole", "propagated", <<"tgw-attach-1">>),
     RawTgwRoute("", "pl-1", "blackhole", "static", <<>>)}

\* routes of tgw-rtb-2
SecondTableRouteChoices ==
    {<<>>,
     <<RawTgwRoute("10.0.0.0/8", "", "blackhole", "static", <<>>)>>,
     <<RawTgwRoute("10.0.0.0/8", "", "active", "static", <<"tgw-attach-1">>)>>}

\* routes of the VPC route table rtb-1: none, a blackhole route, an active one
BlackholeVpcRouteChoices ==
    {<<>>,
     <<RawVpcRoute("10.0.0.0/8", "", "", "tgw-1", "", "blackhole")>>,
     <<RawVpcRoute("10.0.0.0/8", "", "", "tgw-1", "", "active")>>}

\* one TGW with two route tables, and vpc-1 with one route table
BlackholeInputs ==
    {[EmptyInput EXCEPT
        !.TransitGateways = <<RawTgw("tgw-1")>>,
        !.TransitGatewayAttachments = <<VpcAttachment("tgw-attach-1", "tgw-1", "vpc-9")>>,
        !.TransitGatewayRouteTables =
            <<RawRouteTable("tgw-rtb-1", "tgw-1"), RawRouteTable("tgw-rtb-2", "tgw-1")>>,
        !.RouteFiles = <<[rt_id |-> "tgw-rtb-1", Routes |-> routes],
                         [rt_id |-> "tgw-rtb-2", Routes |-> other]>>,
        !.Vpcs = <<RawVpc("vpc-1", "10.0.0.0/16", <<>>)>>,
        !.RouteTables =
            <<RawVpcRouteTable("rtb-1", "vpc-1", <<VpcAssoc(TRUE, "")>>, vpc_routes)>>] :
        <<routes, other, vpc_routes>> \in
            SeqsUpTo(BlackholeRouteChoices, MaxRoutes) \X SecondTableRouteChoices
                \X BlackholeVpcRouteChoices}

InitBlackholes == InitCatalog /\ input \in BlackholeInputs

SpecBlackholes == InitBlackholes /\ [][Next]_vars

\* the (route table, route) positions of the TGW routes in state blackhole
BlackholeTgwRoutes ==
    {p \in (DOMAIN tgw_route_tables) \X (1..(MaxRoutes + 1)) :
        /\ p[2] \in DOMAIN tgw_route_tables[p[1]].routes
        /\ tgw_route_tables[p[1]].routes[p[2]].state = "blackhole"}

(* C13: the number of blackhole findings of find_issues equals the number of
   TGW routes, over all TGW route tables, in state blackhole; each is a warning;
   active routes and blackhole VPC routes produce none. *)
C13_BlackholeCount ==
    pc = "done" =>
        LET found == SelectSeq(issues, LAMBDA i : i.type = "blackhole")
        IN  /\ Len(found) = Cardinality(BlackholeTgwRoutes)
            /\ \A k \in DOMAIN found : found[k].severity = "warning"

\* a run with two blackhole routes in one TGW route table, one in the other, an
\* active TGW route and a blackhole VPC route: three findings
C13_Witness ==
    /\ pc = "done"
    /\ \E t, u \in DOMAIN tgw_route_tables :
          /\ t # u
          /\ Len(tgw_route_tables[t].routes) = 2
          /\ \A r \in DOMAIN tgw_route_tables[t].routes :
                tgw_route_tables[t].routes[r].state = "blackhole"
          /\ Len(tgw_route_tables[u].routes) = 1
    /\ \E t \in DOMAIN vpc_route_tables : \E r \in DOMAIN vpc_route_tables[t].routes :
          vpc_route_tables[t].routes[r].state = "blackhole"
    /\ Len(SelectSeq(issues, LAMBDA i : i.type = "blackhole")) = 3

----------------------------------------------------------------------------
(* Missing TGW routes *)

\* the attachments: none, one for vpc-1, one for each VPC, or a VPN attachment
\* whose resource id is vpc-1
MissingRouteAttachmentChoices ==
    {<<>>,
     <<VpcAttachment("tgw-attach-1", "tgw-1", "vpc-1")>>,
     <<VpcAttachment("tgw-attach-1", "tgw-1", "vpc-1"),
       VpcAttachment("tgw-attach-2", "tgw-1", "vpc-2")>>,
     <<RawAttachment("tgw-attach-1", "tgw-1", "vpn", "vpc-1", "111", "111")>>}

\* routes of rtb-1: through the TGW, active or blackhole, and through an
\* internet gateway
MissingRouteChoices ==
    {RawVpcRoute("10.0.0.0/8", "", "", "tgw-1", "", "active"),
     RawVpcRoute("10.0.0.0/8", "", "", "tgw-1", "", "blackhole"),
     RawVpcRoute("0.0.0.0/0", "igw-1", "", "", "", "active")}

\* vpc-1 and vpc-2; rtb-1 belongs to vpc-1, rtb-2 to either VPC
MissingRouteInputs ==
    {[EmptyInput EXCEPT
        !.TransitGateways = <<RawTgw("tgw-1")>>,
        !.TransitGatewayAttachments = atts,
        !.Vpcs = <<RawVpc("vpc-1", "10.0.0.0/16", <<>>),
                   RawVpc("vpc-2", "10.1.0.0/16", <<>>)>>,
        !.RouteTables =
            <<RawVpcRouteTable("rtb-1", "vpc-1", <<VpcAssoc(TRUE, "")>>, routes),
              RawVpcRouteTable("rtb-2", owner, <<>>, other)>>] :
        <<atts, routes, owner, other>> \in
            MissingRouteAttachmentChoices \X SeqsUpTo(MissingRouteChoices, MaxVpcRoutes)
                \X {"vpc-1", "vpc-2"}
                \X {<<>>, <<RawVpcRoute("10.0.0.0/8", "", "", "tgw-1", "", "active")>>}}

InitMissingRoutes == InitCatalog /\ input \in MissingRouteInputs

SpecMissingRoutes == InitMissingRoutes /\ [][Next]_vars

\* the VPC has a TGW attachment and none of its route tables has a TGW route
ClaimMissingRoute(vpc) ==
    /\ Truthy(vpc.tgw_attachment_id)
    /\ ~\E t \in DOMAIN vpc_route_tables :
          /\ vpc_route_tables[t].vpc_id = vpc.id
          /\ \E r \in DOMAIN vpc_route_tables[t].routes :
                vpc_route_tables[t].routes[r].target_type = "tgw"

(* C14: find_issues emits a missing_route info finding for a VPC exactly when
   the VPC has a TGW-attachment back-reference and no VPC route table of that
   VPC holds a route with target type tgw; a VPC without an attachment gets
   none, and each VPC gets at most one. *)
C14_MissingRouteIff ==
    pc = "done" =>
        LET found == SelectSeq(issues, LAMBDA i : i.type = "missing_route")
        IN  /\ \A k \in DOMAIN found : found[k].severity = "info"
            /\ Len(found) = Cardinality({v \in DOMAIN vpcs : ClaimMissingRoute(vpcs[v])})
            /\ \A v \in DOMAIN vpcs :
                  Cardinality({k \in DOMAIN found : found[k].location = vpcs[v].name})
                    = IF ClaimMissingRoute(vpcs[v]) THEN 1 ELSE 0

\* a run where both VPCs are attached, only vpc-2 has a TGW route, and vpc-1 has
\* a route table without one: one finding, for vpc-1
C14_Witness ==
    /\ pc = "done"
    /\ \A v \in DOMAIN vpcs : Truthy(vpcs[v].tgw_attachment_id)
    /\ \E t \in DOMAIN vpc_route_tables :
          /\ vpc_route_tables[t].vpc_id = "vpc-1"
          /\ vpc_route_tables[t].routes # <<>>
    /\ \E t \in DOMAIN vpc_route_tables :
          /\ vpc_route_tables[t].vpc_id = "vpc-2"
          /\ \E r \in DOMAIN vpc_route_tables[t].routes :
                vpc_route_tables[t].routes[r].target_type = "tgw"
    /\ Len(SelectSeq(issues, LAMBDA i : i.type = "missing_route")) = 1
    /\ \E k \in DOMAIN issues :
          issues[k].type = "missing_route" /\ issues[k].location = "vpc-1"

----------------------------------------------------------------------------
(* The findings list *)

RawPeering(id, code) ==
    [VpcPeeringConnectionId |-> id, Name |-> "", StatusCode |-> code,
     RequesterVpcId |-> "vpc-1", AccepterVpcId |-> "vpc-2"]

RawDxConnection(id, state) ==
    [connectionId |-> id, connectionName |-> "", Name |-> "",
     connectionState |-> state, location |-> "EqDC2"]

RawBgpPeer(asn, address, status) ==
    [asn |-> asn, customerAddress |-> address, bgpStatus |-> status]

RawVif(id, state, peers) ==
    [virtualInterfaceId |-> id, virtualInterfaceName |-> "", Name |-> "",
     virtualInterfaceState |-> state, connectionId |-> "dxcon-1", bgpPeers |-> peers]

\* tunnels of vpn-1: both up, one down, both down
FindingsVpnChoices ==
    {<<RawTunnel("1.1.1.1", "UP", ""), RawTunnel("2.2.2.2", "UP", "")>>,
     <<RawTunnel("1.1.1.1", "UP", ""), RawTunnel("2.2.2.2", "DOWN", "")>>,
     <<RawTunnel("1.1.1.1", "DOWN", ""), RawTunnel("2.2.2.2", "DOWN", "")>>}

\* Direct Connect: healthy; a connection that is down with a VIF one of whose
\* BGP peers is down; a connection with a Name tag that is being deleted, with a
\* VIF that is down and whose one BGP peer has no bgpStatus
FindingsDxChoices ==
    {<<RawDxConnection("dxcon-1", "available"),
       RawVif("dxvif-1", "available", <<RawBgpPeer(65000, "169.254.0.2", "UP")>>)>>,
     <<RawDxConnection("dxcon-1", "down"),
       RawVif("dxvif-1", "available", <<RawBgpPeer(65000, "169.254.0.2", "up"),
                                        RawBgpPeer(65001, "169.254.0.6", "down")>>)>>,
     <<[RawDxConnection("dxcon-1", "deleting") EXCEPT !.Name = "backup"],
       RawVif("dxvif-1", "down", <<RawBgpPeer(65000, "169.254.0.2", Absent)>>)>>}

\* one input per choice of which checks have something to report: a blackhole
\* route, a one-way route from tgw-attach-1 to tgw-attach-2, a pending peering,
\* overlapping VPC CIDRs, attached VPCs without TGW routes, VPN and DX trouble
FindingsInputs ==
    {[EmptyInput EXCEPT
        !.TransitGateways = <<RawTgw("tgw-1")>>,
        !.TransitGatewayAttachments =
            <<VpcAttachment("tgw-attach-1", "tgw-1", "vpc-1"),
              VpcAttachment("tgw-attach-2", "tgw-1", "vpc-2")>>,
        !.TransitGatewayRouteTables = <<RawRouteTable("tgw-rtb-1", "tgw-1")>>,
        !.AssociationFiles =
            <<[rt_id |-> "tgw-rtb-1",
               Associations |-> <<AssocRecord("associated", "tgw-attach-1")>>]>>,
        !.RouteFiles =
            <<[rt_id |-> "tgw-rtb-1",
               Routes |->
                 (IF b[1] THEN <<RawTgwRoute("10.1.0.0/16", "", "blackhole", "static", <<>>)>>
                  ELSE <<>>)
                 \o (IF b[2] THEN <<RawTgwRoute("10.0.0.0/8", "", "active", "static",
                                                <<"tgw-attach-2">>)>>
                     ELSE <<>>)]>>,
        !.VpcPeeringConnections =
            <<RawPeering("pcx-1", IF b[3] THEN "pending-acceptance" ELSE "active")>>,
        !.Vpcs = <<RawVpc("vpc-1", "10.0.0.0/16", <<>>),
                   RawVpc("vpc-2", IF b[4] THEN "10.0.5.0/24" ELSE "10.1.0.0/16", <<>>)>>,
        !.RouteTables =
            IF b[5] THEN <<>>
            ELSE <<RawVpcRouteTable("rtb-1", "vpc-1", <<VpcAssoc(TRUE, "")>>,
                       <<RawVpcRoute("10.0.0.0/8", "", "", "tgw-1", "", "active")>>),
                   RawVpcRouteTable("rtb-2", "vpc-2", <<VpcAssoc(TRUE, "")>>,
                       <<RawVpcRoute("10.0.0.0/8", "", "", "tgw-1", "", "active")>>)>>,
        !.VpnConnections = <<RawVpn("vpn-1", "", tunnels)>>,
        !.connections = <<dx[1]>>,
        !.virtualInterfaces = <<dx[2]>>] :
        <<b, tunnels, dx>> \in [1..5 -> BOOLEAN] \X FindingsVpnChoices \X FindingsDxChoices}

InitFindings == InitCatalog /\ input \in FindingsInputs

SpecFindings == InitFindings /\ [][Next]_vars

\* the place of the check that emits findings of a type, in the order of C15
CheckRank(type) ==
    CASE type = "blackhole" -> 1
      [] type = "asymmetric" -> 2
      [] type = "peering" -> 3
      [] type = "overlap" -> 4
      [] type = "missing_route" -> 5
      [] type \in {"vpn_down", "vpn_partial"} -> 6
      [] type \in {"dx_down", "dx_degraded", "vif_down", "bgp_down", "bgp_partial"} -> 7

\* the findings of the check at a place of the order
FindingsOfCheck(rank) == SelectSeq(issues, LAMBDA i : CheckRank(i.type) = rank)

(* C15: the findings list is the concatenation of the outputs of the seven
   checks in the order blackhole, asymmetric, peering, overlap, missing-route,
   VPN tunnels, Direct Connect: every finding of an earlier check precedes every
   finding of a later one, and the findings of each check are what that check
   computes from the catalog alone, whatever the other checks emitted. *)
C15_FindingsInCheckOrder ==
    pc = "done" =>
        /\ \A i, j \in DOMAIN issues :
              i < j => CheckRank(issues[i].type) <= CheckRank(issues[j].type)
        /\ FindingsOfCheck(1) = check_blackholes(tgw_route_tables)
        /\ FindingsOfCheck(2)
              = check_asymmetric_routing(tgws, tgw_attachments, tgw_route_tables)
        /\ FindingsOfCheck(3) = check_peering_issues(peerings)
        /\ FindingsOfCheck(4) = check_cidr_overlaps(vpcs)
        /\ FindingsOfCheck(5) = check_missing_routes(vpcs, vpc_route_tables)
        /\ FindingsOfCheck(6) = check_vpn_tunnels(vpn_connections)
        /\ FindingsOfCheck(7) = check_dx_issues(dx_connections, dx_vifs)

\* a run in which every one of the seven checks reported something
C15_Witness ==
    /\ pc = "done"
    /\ \A rank \in 1..7 : FindingsOfCheck(rank) # <<>>
    /\ Len(FindingsOfCheck(5)) = 2
    /\ Len(FindingsOfCheck(7)) = 2

----------------------------------------------------------------------------
(* VPC route targets *)

RawVpcRouteTo(gateway, nat, tgw, pcx, eni) ==
    [RawVpcRoute("10.0.0.0/8", gateway, nat, tgw, eni, "active")
        EXCEPT !.VpcPeeringConnectionId = pcx]

\* GatewayId values: absent, every prefix the parser knows, and one it does not
GatewayIdChoices == {"", "local", "igw-1", "vgw-1", "eigw-1", "vpce-1", "lgw-1"}

\* one route table with one route, whose target fields are present in any
\* combination
RouteTargetInputs ==
    {[EmptyInput EXCEPT
        !.Vpcs = <<RawVpc("vpc-1", "10.0.0.0/16", <<>>)>>,
        !.RouteTables =
            <<RawVpcRouteTable("rtb-1", "vpc-1", <<VpcAssoc(TRUE, "")>>,
                  <<RawVpcRouteTo(gw, nat, tgw, pcx, eni)>>)>>] :
        <<gw, nat, tgw, pcx, eni>> \in
            GatewayIdChoices \X {"", "nat-1"} \X {"", "tgw-1"} \X {"", "pcx-1"}
                \X {"", "eni-1"}}

InitRouteTargets == InitCatalog /\ input \in RouteTargetInputs

SpecRouteTargets == InitRouteTargets /\ [][Next]_vars

\* _load_vpc_route_tables has run
VpcRouteTablesLoaded ==
    pc \notin {"load_metadata", "load_tgws", "load_tgw_attachments", "load_tgw_route_tables",
               "load_tgw_route_details", "load_vpcs", "load_subnets",
               "load_vpc_route_tables"}

\* the field C16 lets decide: the first one present, in priority order
ClaimDecidingField(raw) ==
    IF raw.GatewayId # "" THEN "gateway"
    ELSE IF raw.NatGatewayId # "" THEN "nat"
    ELSE IF raw.TransitGatewayId # "" THEN "tgw"
    ELSE IF raw.VpcPeeringConnectionId # "" THEN "pcx"
    ELSE IF raw.NetworkInterfaceId # "" THEN "eni"
    ELSE "unknown"

\* the target types the gateway-id field can give, and "unknown"
GatewayTargetTypes == {"local", "igw", "vgw", "eigw", "vpce", "unknown"}

(* C16: route target resolution consults gateway-id, NAT-gateway-id,
   transit-gateway-id, VPC-peering-id, network-interface-id in this order and
   only the first present field decides: a record with a gateway id is never
   classified by a later field, whatever the prefix of the gateway id. *)
C16_FirstPresentFieldDecides ==
    VpcRouteTablesLoaded =>
        \A t \in DOMAIN vpc_route_tables : \A r \in DOMAIN vpc_route_tables[t].routes :
            LET raw == input.RouteTables[t].Routes[r]
                route == vpc_route_tables[t].routes[r]
            IN  IF ClaimDecidingField(raw) = "gateway"
                THEN route.target_type \in GatewayTargetTypes
                ELSE route.target_type = ClaimDecidingField(raw)

----------------------------------------------------------------------------
(* Settled associations and propagations *)

\* records of associations-tgw-rtb-1.json: settled and unsettled states, for
\* attachments of the catalog and one that is not in it
SettledAssocChoices ==
    {AssocRecord("associated", "tgw-attach-1"),
     AssocRecord("disassociating", "tgw-attach-1"),
     AssocRecord("associating", "tgw-attach-2"),
     AssocRecord("associated", "tgw-attach-9")}

\* records of propagations-tgw-rtb-1.json
SettledPropChoices ==
    {AssocRecord("enabled", "tgw-attach-1"),
     AssocRecord("disabled", "tgw-attach-1"),
     AssocRecord("enabling", "tgw-attach-2"),
     AssocRecord("enabled", "tgw-attach-9")}

\* records of propagations-tgw-rtb-2.json
SecondPropFileChoices ==
    {<<>>,
     <<AssocRecord("enabled", "tgw-attach-1")>>,
     <<AssocRecord("disabled", "tgw-attach-2")>>}

\* two attachments, two route tables, an associations file for tgw-rtb-1 and a
\* propagations file for each table, with up to MaxAssocRecords records
SettledInputs ==
    {[EmptyInput EXCEPT
        !.TransitGateways = <<RawTgw("tgw-1")>>,
        !.TransitGatewayAttachments =
            <<RawAttachment("tgw-attach-1", "tgw-1", "vpn", "vpn-1", "111", "111"),
              RawAttachment("tgw-attach-2", "tgw-1", "vpn", "vpn-2", "111", "111")>>,
        !.TransitGatewayRouteTables =
            <<RawRouteTable("tgw-rtb-1", "tgw-1"), RawRouteTable("tgw-rtb-2", "tgw-1")>>,
        !.AssociationFiles = <<[rt_id |-> "tgw-rtb-1", Associations |-> assocs]>>,
        !.PropagationFiles = <<[rt_id |-> "tgw-rtb-1", Propagations |-> props],
                               [rt_id |-> "tgw-rtb-2", Propagations |-> other]>>] :
        <<assocs, props, other>> \in
            SeqsUpTo(SettledAssocChoices, MaxAssocRecords)
                \X SeqsUpTo(SettledPropChoices, MaxAssocRecords)
                \X SecondPropFileChoices}

InitSettled == InitCatalog /\ input \in SettledInputs

SpecSettled == InitSettled /\ [][Next]_vars

\* the records of the files for route table rt_id that are in the given state
\* and name attachment att_id
RecordsFor(files, field, rt_id, state, att_id) ==
    {p \in (DOMAIN files) \X (1..(MaxAssocRecords + 1)) :
        /\ files[p[1]].rt_id = rt_id
        /\ p[2] \in DOMAIN files[p[1]][field]
        /\ files[p[1]][field][p[2]].State = state
        /\ files[p[1]][field][p[2]].TransitGatewayAttachmentId = att_id}

\* the files without the records that are not in the given state
OnlyInState(files, field, state) ==
    [f \in DOMAIN files |->
        [files[f] EXCEPT ![field] = SelectSeq(@, LAMBDA rec : rec.State = state)]]

(* C17: after _load_tgw_route_details a route table's associations hold an
   attachment id only if an association record for that table has state
   'associated', and its propagations only if a propagation record has state
   'enabled'; records in any other state change neither the route table nor
   the attachment: the step leaves what it leaves without them. *)
C17_OnlySettledRecordsCount ==
    [][pc = "load_tgw_route_details" =>
          /\ \A t \in DOMAIN tgw_route_tables' :
                LET rt == tgw_route_tables'[t]
                IN  /\ \A a \in DOMAIN rt.associations :
                          RecordsFor(input.AssociationFiles, "Associations", rt.id,
                                     "associated", rt.associations[a]) # {}
                    /\ \A a \in DOMAIN rt.propagations :
                          RecordsFor(input.PropagationFiles, "Propagations", rt.id,
                                     "enabled", rt.propagations[a]) # {}
          /\ LET st == LoadPropagationFiles(
                          OnlyInState(input.PropagationFiles, "Propagations", "enabled"),
                          LoadAssociationFiles(
                              OnlyInState(input.AssociationFiles, "Associations", "associated"),
                              [rts |-> tgw_route_tables, atts |-> tgw_attachments]))
             IN  /\ tgw_attachments' = st.atts
                 /\ \A t \in DOMAIN tgw_route_tables' :
                       /\ tgw_route_tables'[t].associations = st.rts[t].associations
                       /\ tgw_route_tables'[t].propagations = st.rts[t].propagations]_vars

\* after the load: one settled association among unsettled records of both
\* attachments; tgw-attach-2, named only by unsettled records, is untouched
C17_Witness ==
    /\ pc = "done"
    /\ \E f \in DOMAIN input.AssociationFiles :
          /\ Len(input.AssociationFiles[f].Associations) = 2
          /\ \E r \in DOMAIN input.AssociationFiles[f].Associations :
                input.AssociationFiles[f].Associations[r]
                    = AssocRecord("associating", "tgw-attach-2")
    /\ \E f \in DOMAIN input.PropagationFiles :
          \E r \in DOMAIN input.PropagationFiles[f].Propagations :
              input.PropagationFiles[f].Propagations[r].State = "disabled"
    /\ \E t \in DOMAIN tgw_route_tables :
          tgw_route_tables[t].associations = <<"tgw-attach-1">>
    /\ \E a \in DOMAIN tgw_attachments :
          /\ tgw_attachments[a].id = "tgw-attach-2"
          /\ ~Truthy(tgw_attachments[a].associated_route_table_id)
          /\ tgw_attachments[a].propagating_to = <<>>

----------------------------------------------------------------------------
(* Hub and spoke views *)

MaxTgws == 2

\* attachments into tgw-1 and tgw-2; two records may carry the same id
AccountViewAttachmentChoices ==
    {RawAttachment("tgw-attach-1", "tgw-1", "vpc", "vpc-1", "111", "222"),
     RawAttachment("tgw-attach-2", "tgw-2", "vpn", "vpn-1", "111", "222"),
     RawAttachment("tgw-attach-1", "tgw-2", "vpc", "vpc-1", "111", "222")}

\* up to MaxTgws TGW records and up to MaxAttachments attachment records
AccountViewInputs ==
    {[EmptyInput EXCEPT
        !.TransitGateways = [i \in DOMAIN gws |-> RawTgw(gws[i])],
        !.TransitGatewayAttachments = atts] :
        <<gws, atts>> \in SeqsUpTo({"tgw-1", "tgw-2"}, MaxTgws)
                            \X SeqsUpTo(AccountViewAttachmentChoices, MaxAttachments)}

InitAccountView == InitCatalog /\ input \in AccountViewInputs

SpecAccountView == InitAccountView /\ [][Next]_vars

(* C18: is_hub is true exactly when the catalog holds at least one
   TransitGateway, is_spoke exactly when it holds none but at least one
   TGWAttachment; the two are never true together, and both are false exactly
   when the catalog has neither TGWs nor attachments. *)
C18_HubXorSpoke ==
    LET hub == is_hub_account(tgws)
        spoke == is_spoke_account(tgws, tgw_attachments)
    IN  /\ hub <=> DictKeys(tgws) # {}
        /\ spoke <=> (DictKeys(tgws) = {} /\ DictKeys(tgw_attachments) # {})
        /\ ~(hub /\ spoke)
        /\ (~hub /\ ~spoke) <=> (DictKeys(tgws) = {} /\ DictKeys(tgw_attachments) = {})

\* a loaded hub catalog that also holds attachments: hub, not spoke
C18_Witness ==
    /\ pc = "done"
    /\ Len(tgws) = 1
    /\ Len(tgw_attachments) = 2
    /\ is_hub_account(tgws)
    /\ ~is_spoke_account(tgws, tgw_attachments)
    /\ referenced_tgw_ids(tgw_attachments) = {"tgw-1", "tgw-2"}

----------------------------------------------------------------------------
(* VPC linking *)

\* attachments: two of the local vpc-1, one of vpc-2, one of a VPC of another
\* account, and a VPN attachment whose resource id happens to be vpc-1
CorrelateAttachmentChoices ==
    {VpcAttachment("tgw-attach-1", "tgw-1", "vpc-1"),
     VpcAttachment("tgw-attach-2", "tgw-1", "vpc-1"),
     VpcAttachment("tgw-attach-3", "tgw-1", "vpc-2"),
     VpcAttachment("tgw-attach-4", "tgw-1", "vpc-9"),
     RawAttachment("tgw-attach-5", "tgw-1", "vpn", "vpc-1", "111", "111")}

RawNamedVpc(id, name, cidr, more) == [RawVpc(id, cidr, more) EXCEPT !.Name = name]

\* the VPCs of the catalog: none, vpc-1 (with a Name tag and two CIDRs), or
\* vpc-1 and vpc-2
CorrelateVpcChoices ==
    {<<>>,
     <<RawNamedVpc("vpc-1", "prod", "10.0.0.0/16", <<"10.1.0.0/16">>)>>,
     <<RawNamedVpc("vpc-1", "prod", "10.0.0.0/16", <<"10.1.0.0/16">>),
       RawVpc("vpc-2", "", <<>>)>>}

CorrelateInputs ==
    {[EmptyInput EXCEPT
        !.TransitGateways = <<RawTgw("tgw-1")>>,
        !.TransitGatewayAttachments = atts,
        !.Vpcs = vs] :
        <<atts, vs>> \in SeqsUpTo(CorrelateAttachmentChoices, MaxAttachments)
                           \X CorrelateVpcChoices}

InitCorrelate == InitCatalog /\ input \in CorrelateInputs

SpecCorrelate == InitCorrelate /\ [][Next]_vars

\* the attachment is of type vpc and its resource id is a VPC of the catalog
IsLocalVpcAttachment(att) == att.type = "vpc" /\ DictHas(vpcs, att.resource_id)

(* C19: _correlate_data gives every VPC-type attachment whose resource id is a
   VPC of the catalog that VPC's CIDR list and name, and the VPC's
   tgw_attachment_id then names an attachment of type vpc whose resource id is
   that VPC; attachments of unknown VPCs and of other types stay as they are,
   with an empty CIDR list, and change no VPC's back-reference. *)
C19_LinkLocalVpcAttachments ==
    [][pc = "correlate_data" =>
          /\ \A a \in DOMAIN tgw_attachments :
                LET before == tgw_attachments[a]
                    after == tgw_attachments'[a]
                IN  IF IsLocalVpcAttachment(before)
                    THEN LET vpc == DictGet(vpcs', before.resource_id)
                         IN  /\ after.cidrs = vpc.cidrs
                             /\ after.name = vpc.name
                             /\ \E b \in DOMAIN tgw_attachments' :
                                   /\ tgw_attachments'[b].id = vpc.tgw_attachment_id
                                   /\ tgw_attachments'[b].type = "vpc"
                                   /\ tgw_attachments'[b].resource_id = vpc.id
                    ELSE after = before /\ after.cidrs = <<>>
          /\ \A v \in DOMAIN vpcs :
                /\ [vpcs'[v] EXCEPT !.tgw_attachment_id = ""]
                      = [vpcs[v] EXCEPT !.tgw_attachment_id = ""]
                /\ (~\E a \in DOMAIN tgw_attachments :
                        /\ IsLocalVpcAttachment(tgw_attachments[a])
                        /\ tgw_attachments[a].resource_id = vpcs[v].id)
                      => vpcs'[v].tgw_attachment_id = vpcs[v].tgw_attachment_id]_vars

\* after the load: a linked attachment of vpc-1 next to a VPN attachment with the
\* same resource id, and vpc-2 without a back-reference
C19_Witness ==
    /\ pc = "done"
    /\ Len(vpcs) = 2
    /\ \E a, b \in DOMAIN tgw_attachments :
          /\ tgw_attachments[a].type = "vpc"
          /\ tgw_attachments[a].name = "prod"
          /\ tgw_attachments[a].cidrs = <<"10.0.0.0/16", "10.1.0.0/16">>
          /\ tgw_attachments[b].type = "vpn"
          /\ tgw_attachments[b].resource_id = "vpc-1"
          /\ tgw_attachments[b].cidrs = <<>>
          /\ DictGet(vpcs, "vpc-1").tgw_attachment_id = tgw_attachments[a].id
    /\ DictGet(vpcs, "vpc-2").tgw_attachment_id = None

----------------------------------------------------------------------------
(* Dangling references and malformed CIDRs *)

\* attachments: of the local vpc-1, of the local vpc-2, and of vpc-9, which is
\* no VPC of the catalog
DanglingAttachmentChoices ==
    {VpcAttachment("tgw-attach-1", "tgw-1", "vpc-1"),
     VpcAttachment("tgw-attach-2", "tgw-1", "vpc-2"),
     VpcAttachment("tgw-attach-3", "tgw-1", "vpc-9")}

\* association files: none; one for tgw-rtb-1 that names tgw-attach-1,
\* tgw-attach-3 and tgw-attach-9, which is no attachment of the catalog; one for
\* tgw-rtb-9, which is no route table of the catalog
DanglingAssocChoices ==
    {<<>>,
     <<[rt_id |-> "tgw-rtb-1",
        Associations |-> <<AssocRecord("associated", "tgw-attach-1"),
                           AssocRecord("associated", "tgw-attach-3"),
                           AssocRecord("associated", "tgw-attach-9")>>]>>,
     <<[rt_id |-> "tgw-rtb-9",
        Associations |-> <<AssocRecord("associated", "tgw-attach-1")>>]>>}

\* VPCs: none; vpc-1 and vpc-2 with overlapping CIDRs; the same two with a CIDR
\* of vpc-1 or of vpc-2 that names no network
DanglingVpcChoices ==
    {<<>>,
     <<RawVpc("vpc-1", "10.0.0.0/8", <<>>), RawVpc("vpc-2", "10.0.0.0/16", <<>>)>>,
     <<RawVpc("vpc-1", "10.0.0.0/33", <<"10.0.0.0/8">>),
       RawVpc("vpc-2", "10.0.0.0/16", <<>>)>>,
     <<RawVpc("vpc-1", "10.0.0.0/8", <<>>),
       RawVpc("vpc-2", "", <<"pl-1", "10.0.0.0/16">>)>>}

\* subnets: of vpc-1, whose main route table is rtb-1, and of vpc-9, which is no
\* VPC of the catalog; subnet-3 is associated with rtb-1, subnet-2 is not
DanglingSubnetChoices ==
    {<<>>,
     <<RawSubnet("subnet-1", "vpc-1"), RawSubnet("subnet-2", "vpc-9")>>,
     <<RawSubnet("subnet-2", "vpc-9"), RawSubnet("subnet-3", "vpc-9")>>}

\* one TGW with route table tgw-rtb-1, which routes vpc-2's CIDR to tgw-attach-2;
\* VPC route table rtb-1 is the main table of vpc-1 and is associated with
\* subnet-3 and with subnet-9, which is no subnet of the catalog
DanglingInputs ==
    {[EmptyInput EXCEPT
        !.TransitGateways = <<RawTgw("tgw-1")>>,
        !.TransitGatewayAttachments = atts,
        !.TransitGatewayRouteTables = <<RawRouteTable("tgw-rtb-1", "tgw-1")>>,
        !.AssociationFiles = assoc,
        !.RouteFiles =
            <<[rt_id |-> "tgw-rtb-1",
               Routes |-> <<RawTgwRoute("10.0.0.0/16", "", "active", "static",
                                        <<"tgw-attach-2">>)>>]>>,
        !.Vpcs = vs,
        !.Subnets = subs,
        !.RouteTables =
            <<RawVpcRouteTable("rtb-1", "vpc-1",
                               <<VpcAssoc(TRUE, ""), VpcAssoc(FALSE, "subnet-3"),
                                 VpcAssoc(FALSE, "subnet-9")>>,
                               <<RawVpcRoute("0.0.0.0/0", "igw-1", "", "", "",
                                             "active")>>)>>] :
        <<atts, assoc, vs, subs>> \in
            SeqsUpTo(DanglingAttachmentChoices, MaxAttachments)
                \X DanglingAssocChoices \X DanglingVpcChoices
                \X DanglingSubnetChoices}

InitDangling == InitCatalog /\ input \in DanglingInputs

\* main() runs its steps one after the other and stops only at its end
SpecDangling == InitDangling /\ [][Next]_vars /\ WF_vars(Next)

\* the soft misses of a finished run: an attachment of an unknown VPC is linked
\* to no VPC; a subnet without a route table whose VPC is unknown is isolated;
\* an attachment without an associated route table of the catalog reaches
\* nothing, so at most the other attachments head an asymmetric finding; and the
\* overlap findings are exactly those of the CIDR pairs that both name a network
ClaimSoftMisses ==
    /\ \A a \in DOMAIN tgw_attachments :
          (tgw_attachments[a].type = "vpc"
             /\ ~DictHas(vpcs, tgw_attachments[a].resource_id))
          => /\ tgw_attachments[a].name = tgw_attachments[a].resource_id
             /\ \A v \in DOMAIN vpcs :
                   vpcs[v].tgw_attachment_id # tgw_attachments[a].id
    /\ \A i \in DOMAIN subnets :
          (~Truthy(subnets[i].route_table_id) /\ ~DictHas(vpcs, subnets[i].vpc_id))
          => subnets[i].subnet_type = "isolated"
    /\ Cardinality({k \in DOMAIN issues : issues[k].type = "asymmetric"})
         <= Cardinality({<<a, b>> \in (DOMAIN tgw_attachments) \X (DOMAIN tgw_attachments) :
                            /\ a # b
                            /\ DictHas(tgw_route_tables,
                                       tgw_attachments[a].associated_route_table_id)})
    /\ Cardinality({k \in DOMAIN issues : issues[k].type = "overlap"})
         = Cardinality({q \in UNION {{<<i, j, c1, c2>> :
                                          <<c1, c2>> \in (DOMAIN vpcs[i].cidrs)
                                                           \X (DOMAIN vpcs[j].cidrs)} :
                                      <<i, j>> \in {w \in (DOMAIN vpcs) \X (DOMAIN vpcs) :
                                                      w[1] < w[2]}} :
                            /\ Parses(vpcs[q[1]].cidrs[q[3]])
                            /\ Parses(vpcs[q[2]].cidrs[q[4]])
                            /\ overlaps(ip_network(vpcs[q[1]].cidrs[q[3]]),
                                        ip_network(vpcs[q[2]].cidrs[q[4]]))})

(* C20: a run whose input holds dangling references (an attachment of an unknown
   VPC, an association naming an unknown attachment or an unknown route table, a
   subnet of an unknown VPC, an attachment without an associated route table) or
   a VPC CIDR that names no network never fails in the correlate, classify or
   analyze phase: it reaches its end with a catalog and a findings list, each
   dangling reference skipped and each unparseable CIDR neither an error nor an
   overlap. *)
C20_RunCompletes == <>(pc = "done" /\ ClaimSoftMisses)

\* a finished run with an attachment of the unknown vpc-9, an association that
\* names the unknown tgw-attach-9, an isolated subnet of vpc-9, and one overlap
\* finding although vpc-1 has a CIDR that names no network
C20_Witness ==
    /\ pc = "done"
    /\ \E a \in DOMAIN tgw_attachments :
          /\ tgw_attachments[a].resource_id = "vpc-9"
          /\ tgw_attachments[a].associated_route_table_id = "tgw-rtb-1"
          /\ tgw_attachments[a].cidrs = <<>>
    /\ \E t \in DOMAIN tgw_route_tables :
          \E k \in DOMAIN tgw_route_tables[t].associations :
              tgw_route_tables[t].associations[k] = "tgw-attach-9"
    /\ \E i \in DOMAIN subnets :
          /\ subnets[i].vpc_id = "vpc-9"
          /\ ~Truthy(subnets[i].route_table_id)
          /\ subnets[i].subnet_type = "isolated"
    /\ DictHas(vpcs, "vpc-1")
    /\ ~Parses(DictGet(vpcs, "vpc-1").cidrs[1])
    /\ Cardinality({k \in DOMAIN issues : issues[k].type = "overlap"}) = 1

----------------------------------------------------------------------------
(* Order of the phases *)

\* the calls of load() and, after it, of main(), in the order of the source
PhaseOrder ==
    <<"load_metadata", "load_tgws", "load_tgw_attachments", "load_tgw_route_tables",
      "load_tgw_route_details", "load_vpcs", "load_subnets", "load_vpc_route_tables",
      "load_igws", "load_nat_gateways", "load_peerings", "load_vpn_connections",
      "load_customer_gateways", "load_dx_connections", "load_dx_gateways",
      "load_dx_vifs", "load_prefix_lists",
      "correlate_data", "extract_cross_account_cidrs", "classify_subnets",
      "show_stats", "generate", "find_issues", "done">>

\* the place of a step in the order; 0 for a run that ended in an exception
PhaseRank(p) ==
    IF \E i \in DOMAIN PhaseOrder : PhaseOrder[i] = p
    THEN CHOOSE i \in DOMAIN PhaseOrder : PhaseOrder[i] = p
    ELSE 0

\* the route-table links classification reads: each subnet's route table and
\* each VPC's main route table
RouteTableLinks(subs, vs) ==
    <<[i \in DOMAIN subs |-> subs[i].route_table_id],
      [v \in DOMAIN vs |-> vs[v].main_route_table_id]>>

(* C22: the steps of load() run once each, in the order per-type loading, VPC
   linking, CIDR recovery, subnet classification: every step hands over to the
   next one of the order; from the start of classification on, no collection
   changes except the subnets' types (and the findings); and the VPC route
   tables and the route-table links that classification reads are final from
   the end of the route-table loading on. *)
C22_PhasesInOrder ==
    [][/\ PhaseRank(pc') = PhaseRank(pc) + 1
       /\ PhaseRank(pc) >= PhaseRank("classify_subnets")
            => /\ <<local_account_id, tgws, tgw_attachments, tgw_route_tables, vpcs,
                    vpc_route_tables, connectivity, gateways>>'
                    = <<local_account_id, tgws, tgw_attachments, tgw_route_tables,
                        vpcs, vpc_route_tables, connectivity, gateways>>
               /\ [i \in DOMAIN subnets' |->
                      [subnets'[i] EXCEPT !.subnet_type = ""]]
                    = [i \in DOMAIN subnets |->
                          [subnets[i] EXCEPT !.subnet_type = ""]]
       /\ PhaseRank(pc) > PhaseRank("load_vpc_route_tables")
            => /\ vpc_route_tables' = vpc_route_tables
               /\ RouteTableLinks(subnets', vpcs') = RouteTableLinks(subnets, vpcs)]_vars

\* classification has run on a subnet that has a route table of its own with
\* routes, and gave it a type from those routes; the gateway loaders, which run
\* after the route-table loading, have written to the VPC that has a main
\* route table
C22_Witness ==
    /\ pc = "done"
    /\ \E i \in DOMAIN subnets :
          /\ Truthy(subnets[i].route_table_id)
          /\ DictHas(vpc_route_tables, subnets[i].route_table_id)
          /\ subnets[i].subnet_type # "isolated"
    /\ \E v \in DOMAIN vpcs :
          /\ Truthy(vpcs[v].main_route_table_id)
          /\ vpcs[v].igw_id = "igw-1"
          /\ vpcs[v].nat_gateway_ids = <<"nat-1">>

----------------------------------------------------------------------------
(* What the phases after the loading change *)

\* attachments: of the local vpc-1, of vpc-9 of another account, a VPN and a
\* peering attachment
FrameAttachmentChoices ==
    {VpcAttachment("tgw-attach-1", "tgw-1", "vpc-1"),
     RawAttachment("tgw-attach-2", "tgw-1", "vpc", "vpc-9", "222", "111"),
     RawAttachment("tgw-attach-3", "tgw-1", "vpn", "vpn-1", "111", "111"),
     RawAttachment("tgw-attach-4", "tgw-1", "peering", "tgw-2", "111", "111")}

\* routes of tgw-rtb-1: propagated ones for each attachment, or none
FrameRouteChoices ==
    {<<>>,
     <<RawTgwRoute("10.1.0.0/16", "", "active", "propagated", <<"tgw-attach-2">>),
       RawTgwRoute("10.0.5.0/24", "", "active", "propagated", <<"tgw-attach-3">>)>>,
     <<RawTgwRoute("10.1.0.0/16", "", "active", "propagated", <<"tgw-attach-1">>),
       RawTgwRoute("10.0.0.0/8", "", "blackhole", "propagated", <<"tgw-attach-4">>),
       RawTgwRoute("10.0.5.0/24", "", "active", "propagated", <<"tgw-attach-2">>)>>}

\* subnets of vpc-1: subnet-1 follows the main route table, subnet-2 is
\* associated with rtb-2
FrameSubnetChoices ==
    {<<>>,
     <<RawSubnet("subnet-1", "vpc-1")>>,
     <<RawSubnet("subnet-1", "vpc-1"), RawSubnet("subnet-2", "vpc-1")>>}

\* one TGW with tgw-rtb-1, to which every attachment named in the files is
\* associated and propagates; vpc-1 with a main route table to an internet
\* gateway and a second table to a NAT gateway
FrameInputs ==
    {[EmptyInput EXCEPT
        !.TransitGateways = <<RawTgw("tgw-1")>>,
        !.TransitGatewayAttachments = atts,
        !.TransitGatewayRouteTables = <<RawRouteTable("tgw-rtb-1", "tgw-1")>>,
        !.AssociationFiles =
            <<[rt_id |-> "tgw-rtb-1",
               Associations |-> <<AssocRecord("associated", "tgw-attach-1"),
                                  AssocRecord("associated", "tgw-attach-2")>>]>>,
        !.PropagationFiles =
            <<[rt_id |-> "tgw-rtb-1",
               Propagations |-> <<AssocRecord("enabled", "tgw-attach-2"),
                                  AssocRecord("enabled", "tgw-attach-3")>>]>>,
        !.RouteFiles = <<[rt_id |-> "tgw-rtb-1", Routes |-> routes]>>,
        !.Vpcs = <<RawNamedVpc("vpc-1", "prod", "10.0.0.0/16", <<>>)>>,
        !.Subnets = subs,
        !.InternetGateways = <<RawIgw("igw-1", "available", "vpc-1"),
                               RawIgw("igw-2", "detaching", "vpc-1"),
                               RawIgw("igw-3", "available", Absent)>>,
        !.NatGateways = <<RawNatGateway("nat-1", "vpc-1"),
                          RawNatGateway("nat-2", "vpc-9"),
                          RawNatGateway("nat-3", Absent)>>,
        !.CustomerGateways = <<RawCustomerGateway("cgw-1")>>,
        !.directConnectGateways = <<RawDxGateway("dxgw-1")>>,
        !.PrefixLists = <<RawPrefixList("pl-1", "com.amazonaws.us-east-1.s3"),
                          RawPrefixList("pl-2", "corp-networks")>>,
        !.RouteTables =
            <<RawVpcRouteTable("rtb-1", "vpc-1", <<VpcAssoc(TRUE, "")>>,
                               <<RawVpcRoute("0.0.0.0/0", "igw-1", "", "", "",
                                             "active")>>),
              RawVpcRouteTable("rtb-2", "vpc-1", <<VpcAssoc(FALSE, "subnet-2")>>,
                               <<RawVpcRoute("0.0.0.0/0", "", "nat-1", "", "",
                                             "active")>>)>>] :
        <<atts, routes, subs>> \in
            SeqsUpTo(FrameAttachmentChoices, MaxAttachments)
                \X FrameRouteChoices \X FrameSubnetChoices}

InitFrame == InitCatalog /\ input \in FrameInputs

SpecFrame == InitFrame /\ [][Next]_vars

\* a record sequence with the named fields blanked, for comparing the others
AttachmentsBut(atts, cidrs, name) ==
    [i \in DOMAIN atts |->
        [atts[i] EXCEPT !.cidrs = IF cidrs THEN <<>> ELSE @,
                        !.name = IF name THEN "" ELSE @]]

\* the ids of every collection of the catalog
CatalogKeys ==
    <<DictKeys(tgws), DictKeys(tgw_attachments), DictKeys(tgw_route_tables),
      DictKeys(vpcs), DictKeys(subnets), DictKeys(vpc_route_tables),
      DictKeys(peerings), DictKeys(vpn_connections), DictKeys(dx_connections),
      DictKeys(dx_vifs), DictKeys(igws), DictKeys(nat_gateways),
      DictKeys(customer_gateways), DictKeys(dx_gateways), DictKeys(prefix_lists)>>

\* the TGW association and propagation links, on both sides
TgwLinks ==
    <<[a \in DOMAIN tgw_attachments |->
          <<tgw_attachments[a].associated_route_table_id,
            tgw_attachments[a].propagating_to>>],
      [t \in DOMAIN tgw_route_tables |->
          <<tgw_route_tables[t].associations, tgw_route_tables[t].propagations>>]>>

(* C23: after the per-type loading, VPC linking changes nothing but the cidrs
   and name of attachments and the tgw_attachment_id of VPCs; CIDR recovery
   changes nothing but the cidrs of attachments of type vpc or vpn;
   classification changes nothing but the subnet_type of subnets.  No step of
   the run removes an id from a collection, and from VPC linking on the TGW
   association and propagation links stay as the loading left them. *)
C23_PhasesChangeOnlyTheirFields ==
    [][/\ \A c \in DOMAIN CatalogKeys : CatalogKeys[c] \subseteq CatalogKeys'[c]
       /\ pc = "correlate_data"
            => /\ AttachmentsBut(tgw_attachments', TRUE, TRUE)
                    = AttachmentsBut(tgw_attachments, TRUE, TRUE)
               /\ [v \in DOMAIN vpcs' |-> [vpcs'[v] EXCEPT !.tgw_attachment_id = ""]]
                    = [v \in DOMAIN vpcs |-> [vpcs[v] EXCEPT !.tgw_attachment_id = ""]]
               /\ UNCHANGED <<local_account_id, tgws, tgw_route_tables, subnets,
                              vpc_route_tables, connectivity, gateways>>
       /\ pc = "extract_cross_account_cidrs"
            => /\ AttachmentsBut(tgw_attachments', TRUE, FALSE)
                    = AttachmentsBut(tgw_attachments, TRUE, FALSE)
               /\ \A a \in DOMAIN tgw_attachments :
                     tgw_attachments[a].type \notin {"vpc", "vpn"}
                        => tgw_attachments'[a] = tgw_attachments[a]
               /\ UNCHANGED <<local_account_id, tgws, tgw_route_tables, vpcs, subnets,
                              vpc_route_tables, connectivity, gateways>>
       /\ pc = "classify_subnets"
            => /\ [i \in DOMAIN subnets' |-> [subnets'[i] EXCEPT !.subnet_type = ""]]
                    = [i \in DOMAIN subnets |-> [subnets[i] EXCEPT !.subnet_type = ""]]
               /\ UNCHANGED <<local_account_id, tgws, tgw_attachments,
                              tgw_route_tables, vpcs, vpc_route_tables, connectivity,
                              gateways>>
       /\ PhaseRank(pc) >= PhaseRank("correlate_data") => TgwLinks' = TgwLinks]_vars

\* a finished run in which each phase did its work: a linked attachment, an
\* attachment with recovered CIDRs, a subnet classified through the main route
\* table it has no link to, and association and propagation links in place
C23_Witness ==
    /\ pc = "done"
    /\ \E a, b \in DOMAIN tgw_attachments :
          /\ tgw_attachments[a].name = "prod"
          /\ tgw_attachments[a].associated_route_table_id = "tgw-rtb-1"
          /\ DictGet(vpcs, "vpc-1").tgw_attachment_id = tgw_attachments[a].id
          /\ tgw_attachments[b].resource_id \in {"vpc-9", "vpn-1"}
          /\ tgw_attachments[b].cidrs # <<>>
          /\ tgw_attachments[b].propagating_to = <<"tgw-rtb-1">>
    /\ \E i \in DOMAIN subnets :
          /\ ~Truthy(subnets[i].route_table_id)
          /\ subnets[i].subnet_type = "public"

----------------------------------------------------------------------------
(* BGP peers of Direct Connect virtual interfaces *)

\* BGP peers as dx-vifs.json can hold them: two peers, each up (in either
\* spelling), down, without a bgpStatus key, or with an empty or a null status
BgpPeerChoices ==
    {RawBgpPeer(p[1], p[2], status) :
        <<p, status>> \in {<<65000, "169.254.0.2">>, <<65001, "169.254.0.6">>}
                            \X {"up", "UP", "down", Absent, "", None}}

MaxPeers == 2

\* one virtual interface with a Name tag, available or down, with up to
\* MaxPeers BGP peers
BgpInputs ==
    {[EmptyInput EXCEPT
        !.connections = <<RawDxConnection("dxcon-1", "available")>>,
        !.virtualInterfaces =
            <<[RawVif("dxvif-1", state, peers) EXCEPT !.Name = "primary-vif"]>>] :
        <<state, peers>> \in {"available", "down"} \X SeqsUpTo(BgpPeerChoices, MaxPeers)}

InitBgp == InitCatalog /\ input \in BgpInputs

SpecBgp == InitBgp /\ [][Next]_vars

\* a peer's session is up, whatever the case of the status string
PeerIsUp(peer) == peer.bgp_status \in {"up", "UP", "Up"}

\* the findings of one type about a virtual interface
VifFindings(vif, type) ==
    SelectSeq(issues, LAMBDA i : i.type = type /\ i.location = vif.name)

\* the warning the claim expects for a peer that is not up
ClaimPeerWarning(vif, peer) ==
    Issue("bgp_partial", "warning", vif.name,
          "BGP peer ASN " \o ToString(peer.asn) \o " (" \o peer.customer_address
            \o ") DOWN on " \o vif.name)

(* C24: for every virtual interface with at least one BGP peer, the DX check
   emits exactly one bgp_down error and no per-peer warning when no peer is up
   (the status compared without regard to case), and otherwise no bgp_down and
   exactly one warning per peer that is not up, in peer order, naming its ASN
   and customer address; an interface without peers gets no BGP finding; and,
   independently, an interface gets one vif_down error exactly when its state
   is not "available". *)
C24_BgpFindings ==
    pc = "done" =>
        \A v \in DOMAIN dx_vifs :
            LET vif == dx_vifs[v]
                down == SelectSeq(vif.bgp_peers, LAMBDA p : ~PeerIsUp(p))
            IN  /\ IF vif.bgp_peers # <<>> /\ Len(down) = Len(vif.bgp_peers)
                   THEN /\ Len(VifFindings(vif, "bgp_down")) = 1
                        /\ VifFindings(vif, "bgp_down")[1].severity = "error"
                        /\ VifFindings(vif, "bgp_partial") = <<>>
                   ELSE /\ VifFindings(vif, "bgp_down") = <<>>
                        /\ VifFindings(vif, "bgp_partial")
                             = [k \in DOMAIN down |-> ClaimPeerWarning(vif, down[k])]
                /\ IF vif.state # "available"
                   THEN /\ Len(VifFindings(vif, "vif_down")) = 1
                        /\ VifFindings(vif, "vif_down")[1].severity = "error"
                   ELSE VifFindings(vif, "vif_down") = <<>>

\* an available interface with one peer up (spelled "UP") and one down: a single
\* warning that names the down peer
C24_Witness ==
    /\ pc = "done"
    /\ \E v \in DOMAIN dx_vifs :
          /\ dx_vifs[v].state = "available"
          /\ Len(dx_vifs[v].bgp_peers) = 2
          /\ dx_vifs[v].bgp_peers[1].bgp_status = "UP"
          /\ dx_vifs[v].bgp_peers[2].bgp_status = "down"
    /\ Len(issues) = 1
    /\ issues[1].type = "bgp_partial"

----------------------------------------------------------------------------
(* Attachments without CIDRs as destinations *)

\* routes of tgw-rtb-1, the table of attachment A: default routes and a
\* propagated route, all attributed to attachment B
NoCidrRouteChoices ==
    {RawTgwRoute("0.0.0.0/0", "", "active", "static", <<"tgw-attach-2">>),
     RawTgwRoute("0.0.0.0/0", "", "blackhole", "static", <<"tgw-attach-2">>),
     RawTgwRoute("10.1.0.0/16", "", "active", "propagated", <<"tgw-attach-2">>)}

\* routes of tgw-rtb-2, the table of attachment B: none, or a route to A
NoCidrReturnChoices ==
    {<<>>,
     <<RawTgwRoute("10.0.0.0/16", "", "active", "static", <<"tgw-attach-1">>)>>,
     <<RawTgwRoute("0.0.0.0/0", "", "active", "static", <<"tgw-attach-1">>)>>}

\* attachment A of the local vpc-1 (10.0.0.0/16) and attachment B of any type,
\* "bogus" being a type the tool does not know
NoCidrInputs ==
    {[EmptyInput EXCEPT
        !.TransitGateways = <<RawTgw("tgw-1")>>,
        !.TransitGatewayAttachments =
            <<VpcAttachment("tgw-attach-1", "tgw-1", "vpc-1"),
              RawAttachment("tgw-attach-2", "tgw-1", type, "res-2", "111", "111")>>,
        !.TransitGatewayRouteTables =
            <<RawRouteTable("tgw-rtb-1", "tgw-1"), RawRouteTable("tgw-rtb-2", "tgw-1")>>,
        !.AssociationFiles =
            <<[rt_id |-> "tgw-rtb-1",
               Associations |-> <<AssocRecord("associated", "tgw-attach-1")>>],
              [rt_id |-> "tgw-rtb-2",
               Associations |-> <<AssocRecord("associated", "tgw-attach-2")>>]>>,
        !.RouteFiles = <<[rt_id |-> "tgw-rtb-1", Routes |-> routes],
                         [rt_id |-> "tgw-rtb-2", Routes |-> back]>>,
        !.Vpcs = <<RawVpc("vpc-1", "10.0.0.0/16", <<>>)>>] :
        <<type, routes, back>> \in
            {"vpn", "direct-connect-gateway", "peering", "tgw-peering", "connect",
             "bogus"}
                \X SeqsUpTo(NoCidrRouteChoices, MaxRoutes) \X NoCidrReturnChoices}

InitNoCidr == InitCatalog /\ input \in NoCidrInputs

SpecNoCidr == InitNoCidr /\ [][Next]_vars

\* the attachment is named as the destination of an asymmetric finding
IsAsymmetricDestination(att) ==
    \E k \in DOMAIN issues : \E a \in DOMAIN tgw_attachments :
        /\ issues[k].type = "asymmetric"
        /\ issues[k].location = tgw_attachments[a].name \o " → " \o att.name

(* C25: once the CIDR recovery is over, an attachment of a type other than vpc
   or vpn has no CIDRs; can_reach(a, b) is false for every b without CIDRs,
   whatever routes (a live default route included) a's table attributes to b;
   so such an attachment is never the destination of an asymmetric finding. *)
C25_NoCidrsNoDestination ==
    pc \in {"classify_subnets", "generate", "find_issues", "done"} =>
        /\ \A b \in DOMAIN tgw_attachments :
              tgw_attachments[b].type \notin {"vpc", "vpn"}
                 => tgw_attachments[b].cidrs = <<>>
        /\ \A a, b \in DOMAIN tgw_attachments :
              tgw_attachments[b].cidrs = <<>>
                 => ~can_reach(tgw_attachments[a], tgw_attachments[b], tgw_route_tables)
        /\ pc = "done" =>
              \A b \in DOMAIN tgw_attachments :
                  tgw_attachments[b].type \notin {"vpc", "vpn"}
                     => ~IsAsymmetricDestination(tgw_attachments[b])

\* a peering attachment B to which A's table has a live default route: B is
\* reported as the source of the one asymmetric finding, A as its destination
C25_Witness ==
    /\ pc = "done"
    /\ \E a, b \in DOMAIN tgw_attachments :
          /\ tgw_attachments[b].type = "peering"
          /\ tgw_attachments[b].cidrs = <<>>
          /\ \E r \in DOMAIN DictGet(tgw_route_tables, "tgw-rtb-1").routes :
                LET route == DictGet(tgw_route_tables, "tgw-rtb-1").routes[r]
                IN  /\ route.destination_cidr = "0.0.0.0/0"
                    /\ route.state = "active"
                    /\ route.attachment_id = tgw_attachments[b].id
          /\ SelectSeq(issues, LAMBDA i : i.type = "asymmetric")
               = <<Issue("asymmetric", "warning", "res-2 → vpc-1",
                         "Asymmetric routing: res-2 can reach vpc-1 but not vice versa")>>

----------------------------------------------------------------------------
(* One direction per pair *)

\* the asymmetric findings that name src as the side that reaches dst
AsymFindings(src, dst) ==
    SelectSeq(issues, LAMBDA i :
        /\ i.type = "asymmetric"
        /\ i.location = src.name \o " → " \o dst.name)

(* C26: for two distinct attachments A and B the asymmetric check reports at
   most one of the directions (A, B) and (B, A), and that one at most once; a
   pair whose attachments reach each other, or neither of which reaches the
   other, is not reported at all. *)
C26_OneDirectionPerPair ==
    pc = "done" =>
        \A i, j \in DOMAIN tgw_attachments :
            LET A == tgw_attachments[i]
                B == tgw_attachments[j]
            IN  i # j =>
                  /\ AsymFindings(A, B) = <<>> \/ AsymFindings(B, A) = <<>>
                  /\ Len(AsymFindings(A, B)) <= 1
                  /\ (can_reach(A, B, tgw_route_tables)
                        <=> can_reach(B, A, tgw_route_tables))
                       => AsymFindings(A, B) = <<>> /\ AsymFindings(B, A) = <<>>

\* a run in which A and B reach each other and nothing is reported
C26_Witness ==
    /\ pc = "done"
    /\ \E i, j \in DOMAIN tgw_attachments :
          /\ i # j
          /\ tgw_attachments[i].tgw_id = tgw_attachments[j].tgw_id
          /\ DictHas(tgws, tgw_attachments[i].tgw_id)
          /\ can_reach(tgw_attachments[i], tgw_attachments[j], tgw_route_tables)
          /\ can_reach(tgw_attachments[j], tgw_attachments[i], tgw_route_tables)
    /\ SelectSeq(issues, LAMBDA x : x.type = "asymmetric") = <<>>

----------------------------------------------------------------------------
(* VPC route state *)

\* routes of rtb-1: a default route through an internet gateway, a NAT gateway,
\* the TGW or a network interface, and an ordinary route through the TGW, each
\* active or blackhole
RouteStateChoices ==
    {RawVpcRoute(d[1], d[2], d[3], d[4], d[5], state) :
        <<d, state>> \in {<<"0.0.0.0/0", "igw-1", "", "", "">>,
                          <<"0.0.0.0/0", "", "nat-1", "", "">>,
                          <<"0.0.0.0/0", "", "", "tgw-1", "">>,
                          <<"0.0.0.0/0", "", "", "", "eni-1">>,
                          <<"10.0.0.0/8", "", "", "tgw-1", "">>}
                            \X {"active", "blackhole"}}

\* vpc-1, attached to the TGW, with subnet-1 and the main route table rtb-1 of up
\* to MaxVpcRoutes routes
RouteStateInputs ==
    {[EmptyInput EXCEPT
        !.TransitGateways = <<RawTgw("tgw-1")>>,
        !.TransitGatewayAttachments = <<VpcAttachment("tgw-attach-1", "tgw-1", "vpc-1")>>,
        !.Vpcs = <<RawVpc("vpc-1", "10.0.0.0/16", <<>>)>>,
        !.Subnets = <<RawSubnet("subnet-1", "vpc-1")>>,
        !.RouteTables =
            <<RawVpcRouteTable("rtb-1", "vpc-1", <<VpcAssoc(TRUE, "")>>, routes)>>] :
        routes \in SeqsUpTo(RouteStateChoices, MaxVpcRoutes)}

InitRouteState == InitCatalog /\ input \in RouteStateInputs

SpecRouteState == InitRouteState /\ [][Next]_vars

\* the subnet type the routes give when their state is not looked at: that of
\* the first default route through an internet gateway, a NAT gateway or a TGW
ClaimTypeWhateverState(routes) ==
    LET deciding == SelectSeq(routes, LAMBDA r :
                        /\ r.destination \in {"0.0.0.0/0", "::/0"}
                        /\ r.target_type \in {"igw", "nat", "tgw"})
    IN  IF deciding = <<>> THEN "isolated"
        ELSE IF Head(deciding).target_type = "igw" THEN "public"
        ELSE IF Head(deciding).target_type = "nat" THEN "private"
        ELSE "tgw"

(* C27: subnet classification and the missing-route check do not look at the
   state of VPC routes: a subnet's type is that of the first default route
   through an internet gateway, NAT gateway or TGW, blackhole or not, and an
   attached VPC gets a missing_route finding exactly when none of its route
   tables holds a route through a TGW, blackhole or not. *)
C27_RouteStateIgnored ==
    pc = "done" =>
        /\ \A i \in DOMAIN subnets :
              subnets[i].subnet_type
                 = ClaimTypeWhateverState(DictGet(vpc_route_tables, "rtb-1").routes)
        /\ \A v \in DOMAIN vpcs :
              (\E k \in DOMAIN issues :
                  issues[k].type = "missing_route" /\ issues[k].location = vpcs[v].name)
              <=> /\ Truthy(vpcs[v].tgw_attachment_id)
                  /\ ~\E t \in DOMAIN vpc_route_tables :
                        /\ vpc_route_tables[t].vpc_id = vpcs[v].id
                        /\ \E r \in DOMAIN vpc_route_tables[t].routes :
                              vpc_route_tables[t].routes[r].target_type = "tgw"

\* the only routes are a blackhole default route through an internet gateway and
\* a blackhole route through the TGW: the subnet is public and nothing is missing
C27_Witness ==
    /\ pc = "done"
    /\ LET routes == DictGet(vpc_route_tables, "rtb-1").routes
       IN  /\ Len(routes) = 2
           /\ \A r \in DOMAIN routes : routes[r].state = "blackhole"
           /\ \E r \in DOMAIN routes : routes[r].target_type = "igw"
           /\ \E r \in DOMAIN routes :
                 routes[r].target_type = "tgw" /\ routes[r].destination = "10.0.0.0/8"
    /\ subnets[1].subnet_type = "public"
    /\ issues = <<>>

----------------------------------------------------------------------------
(* Cross-references written by the loader *)

\* attachments of the local vpc-1 and of vpc-9, which is no VPC of the catalog
CrossRefAttachmentChoices ==
    {VpcAttachment("tgw-attach-1", "tgw-1", "vpc-1"),
     VpcAttachment("tgw-attach-2", "tgw-1", "vpc-9")}

\* VPC route tables: none; rtb-1, the main table of vpc-1, associated with
\* subnet-1 and the unknown subnet-9; rtb-2, the main table of the unknown vpc-9,
\* associated with subnet-1
CrossRefRouteTableChoices ==
    {<<>>,
     <<RawVpcRouteTable("rtb-1", "vpc-1",
                        <<VpcAssoc(TRUE, ""), VpcAssoc(FALSE, "subnet-1"),
                          VpcAssoc(FALSE, "subnet-9")>>, <<>>)>>,
     <<RawVpcRouteTable("rtb-2", "vpc-9",
                        <<VpcAssoc(TRUE, "subnet-1")>>, <<>>)>>}

\* association and propagation files for tgw-rtb-1 and for tgw-rtb-9; the
\* catalog has tgw-rtb-1 or no TGW route table at all, so the files of tgw-rtb-9
\* (and at times those of tgw-rtb-1) name a table that was not loaded
CrossRefInputs ==
    {[EmptyInput EXCEPT
        !.TransitGateways = <<RawTgw("tgw-1")>>,
        !.TransitGatewayAttachments = atts,
        !.TransitGatewayRouteTables = rts,
        !.AssociationFiles =
            <<[rt_id |-> "tgw-rtb-1",
               Associations |-> <<AssocRecord("associated", "tgw-attach-1"),
                                  AssocRecord("associated", "tgw-attach-9")>>],
              [rt_id |-> "tgw-rtb-9",
               Associations |-> <<AssocRecord("associated", "tgw-attach-2")>>]>>,
        !.PropagationFiles =
            <<[rt_id |-> "tgw-rtb-9",
               Propagations |-> <<AssocRecord("enabled", "tgw-attach-1")>>],
              [rt_id |-> "tgw-rtb-1",
               Propagations |-> <<AssocRecord("enabled", "tgw-attach-1"),
                                  AssocRecord("enabled", "tgw-attach-2")>>]>>,
        !.Vpcs = vs,
        !.Subnets = subs,
        !.RouteTables = vrts] :
        <<atts, rts, vs, subs, vrts>> \in
            SeqsUpTo(CrossRefAttachmentChoices, MaxAttachments)
                \X {<<>>, <<RawRouteTable("tgw-rtb-1", "tgw-1")>>}
                \X {<<>>, <<RawVpc("vpc-1", "10.0.0.0/16", <<>>)>>}
                \X {<<>>, <<RawSubnet("subnet-1", "vpc-1")>>}
                \X CrossRefRouteTableChoices}

InitCrossRef == InitCatalog /\ input \in CrossRefInputs

SpecCrossRef == InitCrossRef /\ [][Next]_vars

(* C28: after load(), every reference the loader wrote names an entity of the
   catalog: an attachment's non-empty associated_route_table_id and every entry
   of its propagating_to is a TGW route table, a subnet's non-empty
   route_table_id and a VPC's non-empty main_route_table_id is a VPC route
   table, and a VPC's non-empty tgw_attachment_id is an attachment. *)
C28_ReferencesResolve ==
    pc \in {"generate", "find_issues", "done"} =>
        /\ \A a \in DOMAIN tgw_attachments :
              /\ Truthy(tgw_attachments[a].associated_route_table_id)
                    => DictHas(tgw_route_tables,
                               tgw_attachments[a].associated_route_table_id)
              /\ \A k \in DOMAIN tgw_attachments[a].propagating_to :
                    DictHas(tgw_route_tables, tgw_attachments[a].propagating_to[k])
        /\ \A i \in DOMAIN subnets :
              Truthy(subnets[i].route_table_id)
                 => DictHas(vpc_route_tables, subnets[i].route_table_id)
        /\ \A v \in DOMAIN vpcs :
              /\ Truthy(vpcs[v].main_route_table_id)
                    => DictHas(vpc_route_tables, vpcs[v].main_route_table_id)
              /\ Truthy(vpcs[v].tgw_attachment_id)
                    => DictHas(tgw_attachments, vpcs[v].tgw_attachment_id)

\* a loaded catalog with every kind of reference written, next to files that
\* named the unknown tgw-rtb-9, tgw-attach-9 and subnet-9
C28_Witness ==
    /\ pc = "done"
    /\ \E a \in DOMAIN tgw_attachments :
          /\ tgw_attachments[a].associated_route_table_id = "tgw-rtb-1"
          /\ tgw_attachments[a].propagating_to = <<"tgw-rtb-1">>
    /\ \E a \in DOMAIN tgw_attachments :
          /\ tgw_attachments[a].id = "tgw-attach-2"
          /\ ~Truthy(tgw_attachments[a].associated_route_table_id)
    /\ DictHas(subnets, "subnet-1") /\ DictHas(vpcs, "vpc-1")
    /\ DictGet(subnets, "subnet-1").route_table_id = "rtb-1"
    /\ DictGet(vpcs, "vpc-1").main_route_table_id = "rtb-1"
    /\ DictGet(vpcs, "vpc-1").tgw_attachment_id = "tgw-attach-1"

----------------------------------------------------------------------------
(* The VPN accessor and the VPN check *)

\* VgwTelemetry records: UP, DOWN, "up" in lower case, and a null Status
AgreeTunnelChoices ==
    {RawTunnel("1.1.1.1", "UP", ""),
     RawTunnel("2.2.2.2", "DOWN", ""),
     RawTunnel("3.3.3.3", "up", ""),
     RawTunnel("4.4.4.4", None, "")}

\* two VPN connections with up to MaxTunnels tunnels each, none included
AgreeInputs ==
    {[EmptyInput EXCEPT
        !.VpnConnections = <<RawVpn("vpn-1", "", t1), RawVpn("vpn-2", "", t2)>>] :
        <<t1, t2>> \in SeqsUpTo(AgreeTunnelChoices, MaxTunnels)
                         \X SeqsUpTo(AgreeTunnelChoices, MaxTunnels)}

InitAgree == InitCatalog /\ input \in AgreeInputs

SpecAgree == InitAgree /\ [][Next]_vars

\* the findings of one type located at one VPN connection
VpnFindingsOfType(vpn, type) ==
    SelectSeq(issues, LAMBDA i : i.type = type /\ i.location = vpn.name)

(* C29: for every VPN connection the check and the accessor agree: there is a
   vpn_down error (exactly one) exactly when tunnel_status is "down", there are
   vpn_partial warnings exactly when it is "partial", then one per tunnel whose
   status is not exactly "UP", and there is no VPN finding exactly when it is
   "all_up"; a connection without tunnels is "all_up" and gets no finding. *)
C29_AccessorAndCheckAgree ==
    pc = "done" =>
        \A v \in DOMAIN vpn_connections :
            LET vpn == vpn_connections[v]
                down == VpnFindingsOfType(vpn, "vpn_down")
                partial == VpnFindingsOfType(vpn, "vpn_partial")
                not_up == {t \in DOMAIN vpn.tunnels : vpn.tunnels[t].status # "UP"}
            IN  /\ down # <<>> <=> tunnel_status(vpn) = "down"
                /\ Len(down) <= 1
                /\ \A k \in DOMAIN down : down[k].severity = "error"
                /\ partial # <<>> <=> tunnel_status(vpn) = "partial"
                /\ partial # <<>> => Len(partial) = Cardinality(not_up)
                /\ \A k \in DOMAIN partial : partial[k].severity = "warning"
                /\ (down = <<>> /\ partial = <<>>) <=> tunnel_status(vpn) = "all_up"
                /\ vpn.tunnels = <<>> =>
                      /\ tunnel_status(vpn) = "all_up"
                      /\ down = <<>> /\ partial = <<>>

\* one connection without tunnels and without findings, the other with an UP
\* tunnel and one whose status is "up" in lower case, reported as partial
C29_Witness ==
    /\ pc = "done"
    /\ \E v, w \in DOMAIN vpn_connections :
          /\ vpn_connections[v].tunnels = <<>>
          /\ tunnel_status(vpn_connections[v]) = "all_up"
          /\ Len(vpn_connections[w].tunnels) = 2
          /\ vpn_connections[w].tunnels[1].status = "UP"
          /\ vpn_connections[w].tunnels[2].status = "up"
          /\ tunnel_status(vpn_connections[w]) = "partial"
    /\ Len(issues) = 1
    /\ issues[1].type = "vpn_partial"

====
